---------------------------- MODULE Spec2Model ----------------------------
(***************************************************************************)
(* Model of the image optimisation worker (imageApp) of the gallery site:  *)
(* the option parser, the responsive-width resolver, the format            *)
(* negotiation, the transform pipeline, the fallback path and the cache    *)
(* middleware mounted on /cdn-cgi/image/*; of the URL builders of the      *)
(* site's data module; of the migration script that copies the images to   *)
(* the bucket; and of the artwork page of the site's router.               *)
(*                                                                         *)
(* JavaScript strings are sequences of one-character strings, so that      *)
(* split, includes, parseInt and parseFloat are computed character by      *)
(* character as the runtime computes them.                                 *)
(***************************************************************************)
EXTENDS Integers, Sequences, FiniteSets, TLC

VARIABLES
    bucket,            \* keys of the objects stored in R2_IMAGES
    edgeCache,         \* the entry of the cache 'jane-perry-images', or NoEntry
    pc,                \* position of the request being handled
    req,               \* the request: options, key, Accept, User-Agent
    transformOptions,  \* the directive of the handler (after width resolution)
    outputOptions,     \* the options handed to output(), or NoOutput
    calls,             \* calls made on the IMAGES binding, in order
    gets,              \* keys looked up in the bucket, in order
    primary,           \* what the primary attempt met
    fallback,          \* what the fallback re-fetch met
    resp,              \* the response that reaches the client, or NoResp
    side,              \* a second request in flight at the same time
    args,              \* the arguments of a call of a URL builder
    built,             \* the URLs the builder returned
    artworks,          \* data/artworks.json: the image URL of every artwork
    backup,            \* data/artworks.json.backup, or NoFile
    processedUrls,     \* this.processedUrls of the migrator
    stats,             \* this.stats of the migrator
    tasks,             \* the calls of processImage that migrate() started
    downloaded,        \* how often each URL was fetched
    uploaded,          \* how often a PutObject was sent for each URL
    doc,               \* the parsed document updateDataFiles works on
    mpc,               \* position of migrate()
    artworksData,      \* the imported data/artworks.json: artwork by key
    pageDataMap,       \* the imported page files by "<slug>-<period>"
    visit,             \* the request to an artwork page, or NoVisit
    rendered           \* what the route answered, or NoResp

vars ==
    <<bucket, edgeCache, pc, req, transformOptions, outputOptions, calls,
      gets, primary, fallback, resp, side, args, built, artworks, backup,
      processedUrls, stats, tasks, downloaded, uploaded, doc, mpc,
      artworksData, pageDataMap, visit, rendered>>

-----------------------------------------------------------------------------
(* String literals of the source *)

K_width ==
    <<"w", "i", "d", "t", "h">>
K_w ==
    <<"w">>
K_height ==
    <<"h", "e", "i", "g", "h", "t">>
K_h ==
    <<"h">>
K_quality ==
    <<"q", "u", "a", "l", "i", "t", "y">>
K_q ==
    <<"q">>
K_format ==
    <<"f", "o", "r", "m", "a", "t">>
K_f ==
    <<"f">>
K_fit ==
    <<"f", "i", "t">>
K_gravity ==
    <<"g", "r", "a", "v", "i", "t", "y">>
K_g ==
    <<"g">>
K_background ==
    <<"b", "a", "c", "k", "g", "r", "o", "u", "n", "d">>
K_bg ==
    <<"b", "g">>
K_blur ==
    <<"b", "l", "u", "r">>
K_brightness ==
    <<"b", "r", "i", "g", "h", "t", "n", "e", "s", "s">>
K_contrast ==
    <<"c", "o", "n", "t", "r", "a", "s", "t">>
K_gamma ==
    <<"g", "a", "m", "m", "a">>
K_sharpen ==
    <<"s", "h", "a", "r", "p", "e", "n">>
L_contain ==
    <<"c", "o", "n", "t", "a", "i", "n">>
L_cover ==
    <<"c", "o", "v", "e", "r">>
L_crop ==
    <<"c", "r", "o", "p">>
L_pad ==
    <<"p", "a", "d">>
L_auto ==
    <<"a", "u", "t", "o">>
L_scale_down ==
    <<"s", "c", "a", "l", "e", "-", "d", "o", "w", "n">>
L_width_auto ==
    <<"w", "i", "d", "t", "h", "=", "a", "u", "t", "o">>
L_image_avif ==
    <<"i", "m", "a", "g", "e", "/", "a", "v", "i", "f">>
L_image_webp ==
    <<"i", "m", "a", "g", "e", "/", "w", "e", "b", "p">>
L_image_jpeg ==
    <<"i", "m", "a", "g", "e", "/", "j", "p", "e", "g">>
L_image_ ==
    <<"i", "m", "a", "g", "e", "/">>
L_webp ==
    <<"w", "e", "b", "p">>
L_avif ==
    <<"a", "v", "i", "f">>
L_jpeg ==
    <<"j", "p", "e", "g">>
L_png ==
    <<"p", "n", "g">>
P_mobile ==
    <<"m", "o", "b", "i", "l", "e">>
P_android ==
    <<"a", "n", "d", "r", "o", "i", "d">>
P_iphone ==
    <<"i", "p", "h", "o", "n", "e">>
P_ipad ==
    <<"i", "p", "a", "d">>
P_tablet ==
    <<"t", "a", "b", "l", "e", "t">>
CC_optimized ==
    <<"p", "u", "b", "l", "i", "c", ",", " ", "m", "a", "x", "-", "a", "g", "e", "=", "8", "6", "4", "0", "0", ",", " ", "s", "-", "m", "a", "x", "a", "g", "e", "=", "3", "1", "5", "3", "6", "0", "0", "0">>
CC_fallback ==
    <<"p", "u", "b", "l", "i", "c", ",", " ", "m", "a", "x", "-", "a", "g", "e", "=", "3", "6", "0", "0">>
L_Infinity ==
    <<"I", "n", "f", "i", "n", "i", "t", "y">>
L_true ==
    <<"t", "r", "u", "e">>
L_original_r2 ==
    <<"o", "r", "i", "g", "i", "n", "a", "l", "-", "r", "2">>
L_Accept_UserAgent ==
    <<"A", "c", "c", "e", "p", "t", ",", " ", "U", "s", "e", "r", "-", "A", "g", "e", "n", "t">>

(* Option strings and header values of the requests *)

O_width_auto ==
    <<"w", "i", "d", "t", "h", "=", "a", "u", "t", "o">>
O_width_500 ==
    <<"w", "i", "d", "t", "h", "=", "5", "0", "0">>
O_auto_then_500 ==
    <<"w", "i", "d", "t", "h", "=", "a", "u", "t", "o", ",", "w", "i", "d", "t", "h", "=", "5", "0", "0">>
O_500_then_auto ==
    <<"w", "i", "d", "t", "h", "=", "5", "0", "0", ",", "w", "i", "d", "t", "h", "=", "a", "u", "t", "o">>
O_png ==
    <<"f", "o", "r", "m", "a", "t", "=", "p", "n", "g">>
O_webp_blur ==
    <<"f", "=", "w", "e", "b", "p", ",", "b", "l", "u", "r", "=", "5">>
O_default ==
    <<"f", "o", "r", "m", "a", "t", "=", "a", "u", "t", "o", ",", "q", "u", "a", "l", "i", "t", "y", "=", "8", "5">>
O_short ==
    <<"w", "=", "3", "2", "0", ",", "h", "=", "0", "x", "1", "0", ",", "q", "=", "0", ",", "f", "i", "t", "=", "c", "o", "v", "e", "r">>
O_malformed ==
    <<"w", "i", "d", "t", "h", "=", "a", "b", "c", ",", "b", "r", "i", "g", "h", "t", "n", "e", "s", "s", "=", "0", ",", "s", "h", "a", "r", "p", "e", "n", "=", "1", ".", "5">>
O_avif_filters ==
    <<"f", "o", "r", "m", "a", "t", "=", "a", "v", "i", "f", ",", "h", "e", "i", "g", "h", "t", "=", "2", "0", "0", ",", "c", "o", "n", "t", "r", "a", "s", "t", "=", "x", ",", "g", "a", "m", "m", "a", "=", "2">>
O_jpeg_maxwidth ==
    <<"f", "o", "r", "m", "a", "t", "=", "j", "p", "e", "g", ",", "m", "a", "x", "w", "i", "d", "t", "h", "=", "a", "u", "t", "o">>
O_gif ==
    <<"f", "o", "r", "m", "a", "t", "=", "g", "i", "f", ",", "b", "l", "u", "r", "=", "0">>
O_junk ==
    <<"o", "n", "e", "r", "r", "o", "r", "=", "r", "e", "d", "i", "r", "e", "c", "t", ",", "w", "i", "d", "t", "h", "=", ",", "=", "5", ",", "j", "u", "n", "k">>
UA_iPhone ==
    <<"M", "o", "z", "i", "l", "l", "a", "/", "5", ".", "0", " ", "(", "i", "P", "h", "o", "n", "e", ";", " ", "C", "P", "U", " ", "i", "P", "h", "o", "n", "e", " ", "O", "S", ")">>
UA_iPad ==
    <<"M", "o", "z", "i", "l", "l", "a", "/", "5", ".", "0", " ", "(", "i", "P", "a", "d", ";", " ", "C", "P", "U", " ", "O", "S", ")">>
UA_AndroidTablet ==
    <<"A", "n", "d", "r", "o", "i", "d", " ", "1", "3", ";", " ", "T", "a", "b", "l", "e", "t">>
UA_upper ==
    <<"M", "O", "B", "I", "L", "E", " ", "S", "A", "F", "A", "R", "I">>
UA_desktop ==
    <<"M", "o", "z", "i", "l", "l", "a", "/", "5", ".", "0", " ", "(", "X", "1", "1", ";", " ", "L", "i", "n", "u", "x", " ", "x", "8", "6", "_", "6", "4", ")">>
A_avif_webp ==
    <<"i", "m", "a", "g", "e", "/", "a", "v", "i", "f", ",", "i", "m", "a", "g", "e", "/", "w", "e", "b", "p", ",", "*", "/", "*">>
A_webp ==
    <<"i", "m", "a", "g", "e", "/", "w", "e", "b", "p", ",", "*", "/", "*", ";", "q", "=", "0", ".", "8">>
A_any ==
    <<"*", "/", "*">>
A_upper ==
    <<"I", "M", "A", "G", "E", "/", "A", "V", "I", "F">>

(* Pairs of option strings: recognized keys with values of the documented  *)
(* domains, and pairs that are malformed, out of domain or unrecognized    *)

F_width_320 ==
    <<"w", "i", "d", "t", "h", "=", "3", "2", "0">>
F_w_64 ==
    <<"w", "=", "6", "4">>
F_height_200 ==
    <<"h", "e", "i", "g", "h", "t", "=", "2", "0", "0">>
F_quality_80 ==
    <<"q", "u", "a", "l", "i", "t", "y", "=", "8", "0">>
F_q_100 ==
    <<"q", "=", "1", "0", "0">>
F_format_webp ==
    <<"f", "o", "r", "m", "a", "t", "=", "w", "e", "b", "p">>
F_f_png ==
    <<"f", "=", "p", "n", "g">>
F_fit_cover ==
    <<"f", "i", "t", "=", "c", "o", "v", "e", "r">>
F_gravity_center ==
    <<"g", "r", "a", "v", "i", "t", "y", "=", "c", "e", "n", "t", "e", "r">>
F_bg_fff ==
    <<"b", "g", "=", "f", "f", "f">>
F_blur_5 ==
    <<"b", "l", "u", "r", "=", "5">>
F_brightness_1_5 ==
    <<"b", "r", "i", "g", "h", "t", "n", "e", "s", "s", "=", "1", ".", "5">>
F_contrast_0 ==
    <<"c", "o", "n", "t", "r", "a", "s", "t", "=", "0">>
F_gamma_2 ==
    <<"g", "a", "m", "m", "a", "=", "2">>
F_sharpen_0_5 ==
    <<"s", "h", "a", "r", "p", "e", "n", "=", "0", ".", "5">>
F_quality_0 ==
    <<"q", "u", "a", "l", "i", "t", "y", "=", "0">>
F_quality_150 ==
    <<"q", "u", "a", "l", "i", "t", "y", "=", "1", "5", "0">>
F_quality_neg ==
    <<"q", "u", "a", "l", "i", "t", "y", "=", "-", "5">>
F_quality_abc ==
    <<"q", "u", "a", "l", "i", "t", "y", "=", "a", "b", "c">>
F_width_abc ==
    <<"w", "i", "d", "t", "h", "=", "a", "b", "c">>
F_width_neg ==
    <<"w", "i", "d", "t", "h", "=", "-", "3">>
F_height_12px ==
    <<"h", "e", "i", "g", "h", "t", "=", "1", "2", "p", "x">>
F_format_gif ==
    <<"f", "o", "r", "m", "a", "t", "=", "g", "i", "f">>
F_fit_stretch ==
    <<"f", "i", "t", "=", "s", "t", "r", "e", "t", "c", "h">>
F_junk ==
    <<"j", "u", "n", "k">>
F_onerror ==
    <<"o", "n", "e", "r", "r", "o", "r", "=", "r", "e", "d", "i", "r", "e", "c", "t">>
F_width_novalue ==
    <<"w", "i", "d", "t", "h", "=">>
F_nokey ==
    <<"=", "5">>
F_brightness_x ==
    <<"b", "r", "i", "g", "h", "t", "n", "e", "s", "s", "=", "x">>
F_width_auto ==
    <<"w", "i", "d", "t", "h", "=", "a", "u", "t", "o">>

ValidFragments ==
    {F_width_320, F_w_64, F_height_200, F_quality_80, F_q_100,
     F_format_webp, F_f_png, F_fit_cover, F_gravity_center, F_bg_fff,
     F_blur_5, F_brightness_1_5, F_contrast_0, F_gamma_2, F_sharpen_0_5}

InvalidFragments ==
    {F_quality_0, F_quality_150, F_quality_neg, F_quality_abc, F_width_abc,
     F_width_neg, F_height_12px, F_format_gif, F_fit_stretch, F_junk,
     F_onerror, F_width_novalue, F_nokey, F_brightness_x, F_width_auto}

-----------------------------------------------------------------------------
(* JavaScript values: undefined, NaN, +/-Infinity, numbers, strings.       *)
(* A number is m * 10^(-e) with e >= 0, normalised so that e = 0 or m is    *)
(* not a multiple of 10.                                                   *)

Undef ==
    [t |-> "undefined"]

NaN ==
    [t |-> "NaN"]

Inf(negative) ==
    [t |-> "Infinity", neg |-> negative]

Num(n) ==
    [t |-> "number", m |-> n, e |-> 0]

Str(s) ==
    [t |-> "string", s |-> s]

RECURSIVE Pow10(_)
Pow10(k) ==
    IF k = 0 THEN 1 ELSE 10 * Pow10(k - 1)

RECURSIVE Normalise(_, _)
Normalise(m, e) ==
    IF e > 0 /\ m % 10 = 0
    THEN Normalise(m \div 10, e - 1)
    ELSE [t |-> "number", m |-> m, e |-> e]

\* m * 10^x for any integer x
Decimal(m, x) ==
    IF x >= 0 THEN Num(m * Pow10(x)) ELSE Normalise(m, -x)

\* ToBoolean
Truthy(v) ==
    CASE v.t = "undefined" -> FALSE
      [] v.t = "NaN" -> FALSE
      [] v.t = "Infinity" -> TRUE
      [] v.t = "number" -> v.m # 0
      [] v.t = "string" -> v.s # <<>>

-----------------------------------------------------------------------------
(* String operations *)

UpperCase ==
    <<"A", "B", "C", "D", "E", "F", "G", "H", "I", "J", "K", "L", "M",
      "N", "O", "P", "Q", "R", "S", "T", "U", "V", "W", "X", "Y", "Z">>

LowerCase ==
    <<"a", "b", "c", "d", "e", "f", "g", "h", "i", "j", "k", "l", "m",
      "n", "o", "p", "q", "r", "s", "t", "u", "v", "w", "x", "y", "z">>

ToLowerChar(c) ==
    IF \E i \in 1..26 : UpperCase[i] = c
    THEN LowerCase[CHOOSE i \in 1..26 : UpperCase[i] = c]
    ELSE c

ToLower(s) ==
    [i \in 1..Len(s) |-> ToLowerChar(s[i])]

\* String.prototype.includes
Includes(s, p) ==
    \E i \in 1..(Len(s) - Len(p) + 1) : SubSeq(s, i, i + Len(p) - 1) = p

\* a case-insensitive regular expression that is an alternation of literals
TestAnyOfIgnoreCase(alternatives, s) ==
    \E p \in alternatives : Includes(ToLower(s), p)

RECURSIVE SplitFrom(_, _, _, _)
SplitFrom(s, sep, i, cur) ==
    IF i > Len(s) THEN <<cur>>
    ELSE IF s[i] = sep THEN <<cur>> \o SplitFrom(s, sep, i + 1, <<>>)
    ELSE SplitFrom(s, sep, i + 1, Append(cur, s[i]))

\* String.prototype.split with a one-character separator
Split(s, sep) ==
    SplitFrom(s, sep, 1, <<>>)

\* Array.prototype.filter(Boolean) on an array of strings
FilterBoolean(parts) ==
    SelectSeq(parts, LAMBDA p : p # <<>>)

RECURSIVE TrimStart(_)
TrimStart(s) ==
    IF s # <<>> /\ s[1] = " " THEN TrimStart(Tail(s)) ELSE s

RECURSIVE TrimEnd(_)
TrimEnd(s) ==
    IF s # <<>> /\ s[Len(s)] = " " THEN TrimEnd(SubSeq(s, 1, Len(s) - 1)) ELSE s

Trim(s) ==
    TrimEnd(TrimStart(s))

DecimalDigits ==
    <<"0", "1", "2", "3", "4", "5", "6", "7", "8", "9">>

HexDigitsLower ==
    DecimalDigits \o <<"a", "b", "c", "d", "e", "f">>

\* the value of character c as a digit of the radix, or -1
DigitValue(c, radix) ==
    LET lc == ToLowerChar(c)
    IN  IF \E i \in 1..radix : HexDigitsLower[i] = lc
        THEN (CHOOSE i \in 1..radix : HexDigitsLower[i] = lc) - 1
        ELSE -1

\* the longest prefix of s[i..] made of digits: <<value, number of digits>>
RECURSIVE ScanDigits(_, _, _, _, _)
ScanDigits(s, radix, i, acc, n) ==
    IF i <= Len(s) /\ DigitValue(s[i], radix) >= 0
    THEN ScanDigits(s, radix, i + 1, acc * radix + DigitValue(s[i], radix), n + 1)
    ELSE <<acc, n>>

HasSign(s) ==
    s # <<>> /\ s[1] \in {"+", "-"}

\* parseInt(value) with no radix argument
parseInt(value) ==
    LET t == TrimStart(value)
        neg == t # <<>> /\ t[1] = "-"
        u == IF HasSign(t) THEN Tail(t) ELSE t
        hex == Len(u) >= 2 /\ u[1] = "0" /\ u[2] \in {"x", "X"}
        body == IF hex THEN SubSeq(u, 3, Len(u)) ELSE u
        r == ScanDigits(body, IF hex THEN 16 ELSE 10, 1, 0, 0)
    IN  IF r[2] = 0 THEN NaN
        ELSE Num(IF neg THEN 0 - r[1] ELSE r[1])

\* parseFloat(value): [sign] (Infinity | digits [. digits] | . digits) [e [sign] digits]
parseFloat(value) ==
    LET t == TrimStart(value)
        neg == t # <<>> /\ t[1] = "-"
        u == IF HasSign(t) THEN Tail(t) ELSE t
        ip == ScanDigits(u, 10, 1, 0, 0)
        dot == Len(u) > ip[2] /\ u[ip[2] + 1] = "."
        fp == IF dot THEN ScanDigits(u, 10, ip[2] + 2, 0, 0) ELSE <<0, 0>>
        mant == ip[1] * Pow10(fp[2]) + fp[1]
        after == ip[2] + (IF dot THEN 1 + fp[2] ELSE 0)
        rest == SubSeq(u, after + 1, Len(u))
        hasE == rest # <<>> /\ rest[1] \in {"e", "E"}
        ebody == IF hasE THEN Tail(rest) ELSE <<>>
        eneg == ebody # <<>> /\ ebody[1] = "-"
        edig == IF HasSign(ebody) THEN Tail(ebody) ELSE ebody
        ex == ScanDigits(edig, 10, 1, 0, 0)
        expo == IF hasE /\ ex[2] > 0 THEN (IF eneg THEN 0 - ex[1] ELSE ex[1]) ELSE 0
    IN  IF Len(u) >= 8 /\ SubSeq(u, 1, 8) = L_Infinity THEN Inf(neg)
        ELSE IF ip[2] + fp[2] = 0 THEN NaN
        ELSE Decimal(IF neg THEN 0 - mant ELSE mant, expo - fp[2])

\* a number or string written into a template literal: String(value)
RECURSIVE NatToString(_)
NatToString(n) ==
    IF n < 10 THEN <<DecimalDigits[n + 1]>>
    ELSE Append(NatToString(n \div 10), DecimalDigits[(n % 10) + 1])

RECURSIVE PadLeft(_, _)
PadLeft(digits, width) ==
    IF Len(digits) >= width THEN digits ELSE PadLeft(<<"0">> \o digits, width)

ValueToString(v) ==
    CASE v.t = "string" -> v.s
      [] v.t = "NaN" -> <<"N", "a", "N">>
      [] v.t = "Infinity" -> (IF v.neg THEN <<"-">> ELSE <<>>) \o L_Infinity
      [] v.t = "number" ->
            LET abs == IF v.m < 0 THEN 0 - v.m ELSE v.m
                ds == PadLeft(NatToString(abs), v.e + 1)
                whole == SubSeq(ds, 1, Len(ds) - v.e)
                frac == SubSeq(ds, Len(ds) - v.e + 1, Len(ds))
            IN  (IF v.m < 0 THEN <<"-">> ELSE <<>>) \o whole
                \o (IF v.e > 0 THEN <<".">> \o frac ELSE <<>>)

-----------------------------------------------------------------------------
(* parseTransformOptions *)

EmptyOptions ==
    [width |-> Undef, height |-> Undef, quality |-> Undef, format |-> Undef,
     fit |-> Undef, gravity |-> Undef, background |-> Undef, blur |-> Undef,
     brightness |-> Undef, contrast |-> Undef, gamma |-> Undef,
     sharpen |-> Undef]

\* the test of the value left out: if (key)
ApplyPair_noValueCheck(options, pair) ==
    LET kv == Split(pair, "=")
        key == kv[1]
        value == IF Len(kv) >= 2 THEN kv[2] ELSE <<>>
    IN  IF key # <<>>
        THEN CASE key \in {K_width, K_w} ->
                    [options EXCEPT !.width = parseInt(value)]
               [] key \in {K_height, K_h} ->
                    [options EXCEPT !.height = parseInt(value)]
               [] key \in {K_quality, K_q} ->
                    [options EXCEPT !.quality = parseInt(value)]
               [] key \in {K_format, K_f} ->
                    [options EXCEPT !.format = Str(value)]
               [] key = K_fit ->
                    [options EXCEPT !.fit = Str(value)]
               [] key \in {K_gravity, K_g} ->
                    [options EXCEPT !.gravity = Str(value)]
               [] key \in {K_background, K_bg} ->
                    [options EXCEPT !.background = Str(value)]
               [] key = K_blur ->
                    [options EXCEPT !.blur = parseInt(value)]
               [] key = K_brightness ->
                    [options EXCEPT !.brightness = parseFloat(value)]
               [] key = K_contrast ->
                    [options EXCEPT !.contrast = parseFloat(value)]
               [] key = K_gamma ->
                    [options EXCEPT !.gamma = parseFloat(value)]
               [] key = K_sharpen ->
                    [options EXCEPT !.sharpen = parseFloat(value)]
               [] OTHER -> options
        ELSE options

\* the case label 'quality' left out: only the alias q sets the quality
ApplyPair_qualityAliasOnly(options, pair) ==
    LET kv == Split(pair, "=")
        key == kv[1]
        value == IF Len(kv) >= 2 THEN kv[2] ELSE <<>>
    IN  IF key # <<>> /\ value # <<>>
        THEN CASE key \in {K_width, K_w} ->
                    [options EXCEPT !.width = parseInt(value)]
               [] key \in {K_height, K_h} ->
                    [options EXCEPT !.height = parseInt(value)]
               [] key = K_q ->
                    [options EXCEPT !.quality = parseInt(value)]
               [] key \in {K_format, K_f} ->
                    [options EXCEPT !.format = Str(value)]
               [] key = K_fit ->
                    [options EXCEPT !.fit = Str(value)]
               [] key \in {K_gravity, K_g} ->
                    [options EXCEPT !.gravity = Str(value)]
               [] key \in {K_background, K_bg} ->
                    [options EXCEPT !.background = Str(value)]
               [] key = K_blur ->
                    [options EXCEPT !.blur = parseInt(value)]
               [] key = K_brightness ->
                    [options EXCEPT !.brightness = parseFloat(value)]
               [] key = K_contrast ->
                    [options EXCEPT !.contrast = parseFloat(value)]
               [] key = K_gamma ->
                    [options EXCEPT !.gamma = parseFloat(value)]
               [] key = K_sharpen ->
                    [options EXCEPT !.sharpen = parseFloat(value)]
               [] OTHER -> options
        ELSE options

\* the body of transformPairs.forEach: one pair of the option string
ApplyPair(options, pair) ==
    LET kv == Split(pair, "=")
        key == kv[1]
        value == IF Len(kv) >= 2 THEN kv[2] ELSE <<>>
    IN  IF key # <<>> /\ value # <<>>
        THEN CASE key \in {K_width, K_w} ->
                    [options EXCEPT !.width = parseInt(value)]
               [] key \in {K_height, K_h} ->
                    [options EXCEPT !.height = parseInt(value)]
               [] key \in {K_quality, K_q} ->
                    [options EXCEPT !.quality = parseInt(value)]
               [] key \in {K_format, K_f} ->
                    [options EXCEPT !.format = Str(value)]
               [] key = K_fit ->
                    [options EXCEPT !.fit = Str(value)]
               [] key \in {K_gravity, K_g} ->
                    [options EXCEPT !.gravity = Str(value)]
               [] key \in {K_background, K_bg} ->
                    [options EXCEPT !.background = Str(value)]
               [] key = K_blur ->
                    [options EXCEPT !.blur = parseInt(value)]
               [] key = K_brightness ->
                    [options EXCEPT !.brightness = parseFloat(value)]
               [] key = K_contrast ->
                    [options EXCEPT !.contrast = parseFloat(value)]
               [] key = K_gamma ->
                    [options EXCEPT !.gamma = parseFloat(value)]
               [] key = K_sharpen ->
                    [options EXCEPT !.sharpen = parseFloat(value)]
               [] OTHER -> options
        ELSE options

RECURSIVE ApplyPairs(_, _, _)
ApplyPairs(options, pairs, i) ==
    IF i > Len(pairs) THEN options
    ELSE ApplyPairs(ApplyPair(options, pairs[i]), pairs, i + 1)

\* URLSearchParams restricted to the names the parser reads; a name that is
\* not set is Undef
SearchParams(transform) ==
    [transform |-> transform, width |-> Undef, height |-> Undef,
     quality |-> Undef, format |-> Undef]

\* the individual query parameters
ApplyQueryParameters(options, searchParams) ==
    LET o1 == IF searchParams.width # Undef
              THEN [options EXCEPT !.width = parseInt(searchParams.width.s)]
              ELSE options
        o2 == IF searchParams.height # Undef
              THEN [o1 EXCEPT !.height = parseInt(searchParams.height.s)]
              ELSE o1
        o3 == IF searchParams.quality # Undef
              THEN [o2 EXCEPT !.quality = parseInt(searchParams.quality.s)]
              ELSE o2
    IN  IF searchParams.format # Undef
        THEN [o3 EXCEPT !.format = searchParams.format]
        ELSE o3

\* the default of fit left out
SetDefaults_noFit(options) ==
    [options EXCEPT
        !.quality = IF Truthy(@) THEN @ ELSE Num(85),
        !.format = IF Truthy(@) THEN @ ELSE Str(L_auto)]

SetDefaults(options) ==
    [options EXCEPT
        !.quality = IF Truthy(@) THEN @ ELSE Num(85),
        !.format = IF Truthy(@) THEN @ ELSE Str(L_auto),
        !.fit = IF Truthy(@) THEN @ ELSE Str(L_scale_down)]

parseTransformOptions(searchParams) ==
    LET transformString == IF Truthy(searchParams.transform)
                           THEN searchParams.transform.s ELSE <<>>
        transformPairs == FilterBoolean(Split(transformString, ","))
    IN  SetDefaults(ApplyQueryParameters(
            ApplyPairs(EmptyOptions, transformPairs, 1), searchParams))

-----------------------------------------------------------------------------
(* getResponsiveWidth *)

MobilePattern ==
    {P_mobile, P_android, P_iphone, P_ipad}

TabletPattern ==
    {P_ipad, P_tablet}

\* the mobile test without its "and not tablet"
getResponsiveWidth_mobileFirst(userAgent, requestedWidth) ==
    LET isMobile == TestAnyOfIgnoreCase(MobilePattern, userAgent)
        isTablet == TestAnyOfIgnoreCase(TabletPattern, userAgent)
    IN  IF Truthy(requestedWidth) THEN requestedWidth
        ELSE IF isMobile THEN Num(320)
        ELSE IF isTablet THEN Num(768)
        ELSE Num(1200)

getResponsiveWidth(userAgent, requestedWidth) ==
    LET isMobile == TestAnyOfIgnoreCase(MobilePattern, userAgent)
        isTablet == TestAnyOfIgnoreCase(TabletPattern, userAgent)
    IN  IF Truthy(requestedWidth) THEN requestedWidth
        ELSE IF isMobile /\ ~isTablet THEN Num(320)
        ELSE IF isTablet THEN Num(768)
        ELSE Num(1200)

-----------------------------------------------------------------------------
(* The bucket and the requests the model draws *)

\* object keys a request can name; "" is the empty path remainder
ObjectKeys ==
    {"a.jpg"}

RequestKeys ==
    ObjectKeys \cup {"missing.png", ""}

OptionStrings ==
    {O_width_auto, O_width_500, O_auto_then_500, O_500_then_auto, O_png,
     O_webp_blur, O_default, O_avif_filters, O_jpeg_maxwidth}

\* a header is Undef when the request does not carry it
UserAgents ==
    {Undef, Str(UA_iPhone), Str(UA_iPad), Str(UA_AndroidTablet),
     Str(UA_upper), Str(UA_desktop)}

Accepts ==
    {Undef, Str(A_avif_webp), Str(A_webp), Str(A_any)}

\* the R2 object stored under a key: its bytes, its stored content type and
\* the properties the info endpoint reports
R2Object(key) ==
    [body |-> [src |-> "r2", key |-> key],
     httpMetadata |-> [contentType |-> Str(L_image_jpeg)],
     size |-> [of |-> key, property |-> "size"],
     etag |-> [of |-> key, property |-> "etag"],
     uploaded |-> [of |-> key, property |-> "uploaded"],
     customMetadata |-> [of |-> key, property |-> "customMetadata"]]

\* the query string of a request, by parameter name; Undef is a parameter
\* the request does not carry
NoQuery ==
    [width |-> Undef, w |-> Undef, height |-> Undef, quality |-> Undef,
     format |-> Undef]

NoRequest ==
    [options |-> <<>>, key |-> "", accept |-> Undef, userAgent |-> Undef,
     query |-> NoQuery]

NoOutput ==
    [t |-> "none"]

NoResp ==
    [status |-> 0]

NoEntry ==
    [url |-> <<>>]

\* no second request is in flight
NoSide ==
    [pc |-> "idle", key |-> "", resp |-> NoResp]

\* c.req.header(name) || ''
HeaderOrEmpty(h) ==
    IF Truthy(h) THEN h.s ELSE <<>>

-----------------------------------------------------------------------------
(* The handler of /cdn-cgi/image/:options/*, up to the primary fetch *)

\* the check of the path remainder left out
PathMissing_unchecked(key) ==
    FALSE

\* line 540: !imagePath
PathMissing(key) ==
    key = ""

\* the null check of the fetched object left out
ObjectMissing_unchecked(key, stored) ==
    FALSE

\* line 560: !originalImage, for the object R2_IMAGES.get returned
ObjectMissing(key, stored) ==
    key \notin stored

\* a lookup that takes the object out of the bucket
BucketAfterGet_consuming(stored, key) ==
    stored \ {key}

\* lines 558, 641, 687: R2_IMAGES.get reads the bucket and leaves it as it is
BucketAfterGet(stored, key) ==
    stored

\* lines 546-555: parse the path options, then resolve width=auto
ResolveOptions(options, userAgentHeader) ==
    LET parsed == parseTransformOptions(SearchParams(Str(options)))
    IN  IF Includes(options, L_width_auto)
        THEN [parsed EXCEPT
                !.width = getResponsiveWidth(HeaderOrEmpty(userAgentHeader), Undef)]
        ELSE parsed

\* lines 565-597: the calls on the IMAGES binding before output()
Call(op, arg) ==
    [op |-> op, arg |-> arg]

ResizeOptions(t) ==
    [width |-> IF Truthy(t.width) THEN t.width ELSE Undef,
     height |-> IF Truthy(t.height) THEN t.height ELSE Undef,
     fit |-> IF Truthy(t.fit) THEN t.fit ELSE Undef]

Only(cond, call) ==
    IF cond THEN <<call>> ELSE <<>>

\* the blur moved in front of the resize
PipelineCalls_blurFirst(key, t) ==
    <<Call("input", R2Object(key).body)>>
    \o Only(Truthy(t.blur), Call("blur", t.blur))
    \o Only(Truthy(t.width) \/ Truthy(t.height), Call("transform", ResizeOptions(t)))
    \o Only(t.brightness # Undef, Call("brightness", t.brightness))
    \o Only(t.contrast # Undef, Call("contrast", t.contrast))
    \o Only(t.gamma # Undef, Call("gamma", t.gamma))
    \o Only(t.sharpen # Undef, Call("sharpen", t.sharpen))

PipelineCalls(key, t) ==
    <<Call("input", R2Object(key).body)>>
    \o Only(Truthy(t.width) \/ Truthy(t.height), Call("transform", ResizeOptions(t)))
    \o Only(Truthy(t.blur), Call("blur", t.blur))
    \o Only(t.brightness # Undef, Call("brightness", t.brightness))
    \o Only(t.contrast # Undef, Call("contrast", t.contrast))
    \o Only(t.gamma # Undef, Call("gamma", t.gamma))
    \o Only(t.sharpen # Undef, Call("sharpen", t.sharpen))

\* webp tested before avif
NegotiateFormat_webpFirst(t, acceptHeader) ==
    LET acceptValue == HeaderOrEmpty(acceptHeader)
    IN  IF t.format = Str(L_auto)
        THEN IF Includes(acceptValue, L_image_webp) THEN Str(L_image_webp)
             ELSE IF Includes(acceptValue, L_image_avif) THEN Str(L_image_avif)
             ELSE Str(L_image_jpeg)
        ELSE IF Truthy(t.format) /\ t.format # Str(L_auto)
             THEN Str(L_image_ \o t.format.s)
             ELSE Undef

\* an explicit format used only when the Accept header lists it
NegotiateFormat_acceptGated(t, acceptHeader) ==
    LET acceptValue == HeaderOrEmpty(acceptHeader)
    IN  IF t.format = Str(L_auto)
        THEN IF Includes(acceptValue, L_image_avif) THEN Str(L_image_avif)
             ELSE IF Includes(acceptValue, L_image_webp) THEN Str(L_image_webp)
             ELSE Str(L_image_jpeg)
        ELSE IF Truthy(t.format) /\ Includes(acceptValue, L_image_ \o t.format.s)
             THEN Str(L_image_ \o t.format.s)
             ELSE Str(L_image_jpeg)

\* lines 604-616: the output format
NegotiateFormat(t, acceptHeader) ==
    LET acceptValue == HeaderOrEmpty(acceptHeader)
    IN  IF t.format = Str(L_auto)
        THEN IF Includes(acceptValue, L_image_avif) THEN Str(L_image_avif)
             ELSE IF Includes(acceptValue, L_image_webp) THEN Str(L_image_webp)
             ELSE Str(L_image_jpeg)
        ELSE IF Truthy(t.format) /\ t.format # Str(L_auto)
             THEN Str(L_image_ \o t.format.s)
             ELSE Undef

OutputOptions(t, acceptHeader) ==
    [quality |-> t.quality, format |-> NegotiateFormat(t, acceptHeader)]

\* every call of the primary attempt after the fetch, in program order
AllCalls(key, t, acceptHeader) ==
    PipelineCalls(key, t)
    \o <<Call("output", OutputOptions(t, acceptHeader)), Call("response", Undef)>>

-----------------------------------------------------------------------------
(* Responses *)

TextResponse(text, status) ==
    [status |-> status,
     body |-> [src |-> "text", text |-> text],
     cacheControl |-> Undef, contentType |-> Undef,
     xImageOptimized |-> Undef, xTransformOptions |-> Undef,
     vary |-> Undef, xFallback |-> Undef]

\* the empty path answered like a missing object
PathRequiredResponse_notFound ==
    TextResponse("Image not found", 404)

\* line 541
PathRequiredResponse ==
    TextResponse("Image path required", 400)

\* line 562
NotFoundResponse ==
    TextResponse("Image not found", 404)

\* the cause of the failure written into the body
FailedResponse_leaking(cause) ==
    TextResponse(cause, 500)

\* line 654: the same response whatever failed
FailedResponse(cause) ==
    TextResponse("Image processing failed", 500)

\* JSON.stringify of a property value: a property that is undefined is left
\* out, NaN and the infinities are written as null
JSONValue(v) ==
    CASE v.t = "undefined" -> [t |-> "omitted"]
      [] v.t \in {"NaN", "Infinity"} -> [t |-> "null"]
      [] OTHER -> v

\* line 626: JSON.stringify(transformOptions), by property
JSONStringify(t) ==
    [f \in DOMAIN t |-> JSONValue(t[f])]

\* the Vary header left out
OptimizedResponse_noVary(key, t, out, made) ==
    [status |-> 200,
     body |-> [src |-> "encoded", key |-> key, calls |-> made],
     cacheControl |-> Str(CC_optimized), contentType |-> out.format,
     xImageOptimized |-> Str(L_true),
     xTransformOptions |-> JSONStringify(t),
     vary |-> Undef, xFallback |-> Undef]

\* lines 618-632
OptimizedResponse(key, t, out, made) ==
    [status |-> 200,
     body |-> [src |-> "encoded", key |-> key, calls |-> made],
     cacheControl |-> Str(CC_optimized), contentType |-> out.format,
     xImageOptimized |-> Str(L_true),
     xTransformOptions |-> JSONStringify(t),
     vary |-> Str(L_Accept_UserAgent), xFallback |-> Undef]

\* the fallback marker left out
FallbackResponse_unmarked(object) ==
    [status |-> 200,
     body |-> object.body,
     cacheControl |-> Str(CC_fallback),
     contentType |-> object.httpMetadata.contentType,
     xImageOptimized |-> Undef, xTransformOptions |-> Undef,
     vary |-> Undef, xFallback |-> Undef]

\* lines 642-648
FallbackResponse(object) ==
    [status |-> 200,
     body |-> object.body,
     cacheControl |-> Str(CC_fallback),
     contentType |-> object.httpMetadata.contentType,
     xImageOptimized |-> Undef, xTransformOptions |-> Undef,
     vary |-> Undef, xFallback |-> Str(L_original_r2)]

-----------------------------------------------------------------------------
(* The cache middleware mounted on /cdn-cgi/image/* (hono/cache, hono 4). *)
(* It answers from the cache entry stored under the request URL; on a     *)
(* miss it runs the handler and, when the response is ok, adds the        *)
(* configured Cache-Control directives the response lacks and stores the  *)
(* response under the URL. The store is handed to waitUntil; the model    *)
(* stores with the response and lets the cache drop the entry at any time.*)
(* The cache holds one entry.                                             *)

\* the names of the directives of a Cache-Control value
DirectiveNames(header) ==
    IF header = Undef THEN <<>>
    ELSE LET parts == Split(header.s, ",")
         IN  [i \in 1..Len(parts) |-> Split(Trim(parts[i]), "=")[1]]

InSeq(x, s) ==
    \E i \in 1..Len(s) : s[i] = x

AppendHeader(header, value) ==
    IF header = Undef THEN Str(value) ELSE Str(header.s \o <<",", " ">> \o value)

\* addHeader: every configured directive whose name the response does not
\* carry yet is appended to its Cache-Control
RECURSIVE AddDirectives(_, _, _, _)
AddDirectives(header, existing, directives, i) ==
    IF i > Len(directives) THEN header
    ELSE LET d == Trim(directives[i])
             name == Split(d, "=")[1]
         IN  AddDirectives(IF InSeq(name, existing) THEN header
                           ELSE AppendHeader(header, d),
                           existing, directives, i + 1)

CacheControlOption ==
    CC_optimized

addHeader(res) ==
    [res EXCEPT !.cacheControl =
        AddDirectives(@, DirectiveNames(@),
                      Split(ToLower(CacheControlOption), ","), 1)]

ResponseOk(res) ==
    res.status >= 200 /\ res.status <= 299

\* the response the middleware hands to the client after next()
AfterNext(res) ==
    IF ResponseOk(res) THEN addHeader(res) ELSE res

\* c.req.url: the path with its option string and key, and the query string
Url(options, key, query) ==
    <<options, key, query>>

\* the cache after next(): an ok response is stored under the request URL
CachePut(cache, url, res) ==
    IF ResponseOk(res) THEN [url |-> url, res |-> addHeader(res)] ELSE cache

-----------------------------------------------------------------------------
(* State of the site's own code, which the worker never touches *)

BuilderVars ==
    <<args, built>>

MigratorVars ==
    <<artworks, backup, processedUrls, stats, tasks, downloaded, uploaded,
      doc, mpc>>

RouterVars ==
    <<artworksData, pageDataMap, visit, rendered>>

SiteVars ==
    <<BuilderVars, MigratorVars, RouterVars>>

NoArgs ==
    [fn |-> "none"]

\* no URL builder is being called
BuilderIdle ==
    /\ args = NoArgs
    /\ built = <<>>

NoFile ==
    [t |-> "nofile"]

\* lines 36-37: the state of a new SimpleImageMigrator
NewStats ==
    [total |-> 0, processed |-> 0, errors |-> 0]

\* the migration script is not running and the data file is out of sight
MigratorIdle ==
    /\ artworks = NoFile
    /\ backup = NoFile
    /\ processedUrls = <<>>
    /\ stats = NewStats
    /\ tasks = <<>>
    /\ downloaded = <<>>
    /\ uploaded = <<>>
    /\ doc = NoFile
    /\ mpc = "idle"

NoVisit ==
    [slug |-> <<>>, period |-> <<>>, artworkId |-> <<>>]

\* the site's router is not loaded
RouterIdle ==
    /\ artworksData = <<>>
    /\ pageDataMap = <<>>
    /\ visit = NoVisit
    /\ rendered = NoResp

\* nothing of the site's code is running
SiteIdle ==
    /\ BuilderIdle
    /\ MigratorIdle
    /\ RouterIdle

-----------------------------------------------------------------------------
(* State machine *)

Init ==
    /\ bucket \in SUBSET ObjectKeys
    /\ edgeCache = NoEntry
    /\ pc = "idle"
    /\ req = NoRequest
    /\ transformOptions = EmptyOptions
    /\ outputOptions = NoOutput
    /\ calls = <<>>
    /\ gets = <<>>
    /\ primary = "none"
    /\ fallback = "none"
    /\ resp = NoResp
    /\ side = NoSide
    /\ SiteIdle

\* A request arrives. The cache middleware answers it from the cache when
\* the URL matches; otherwise the handler runs up to its first await
\* (lines 536-555).
Receive(options, key, accept, userAgent, query) ==
    /\ pc = "idle"
    /\ UNCHANGED SiteVars
    /\ req' = [options |-> options, key |-> key, accept |-> accept,
               userAgent |-> userAgent, query |-> query]
    /\ UNCHANGED <<bucket, side, edgeCache, outputOptions, calls, gets, fallback>>
    /\ IF edgeCache # NoEntry /\ edgeCache.url = Url(options, key, query)
       THEN /\ resp' = edgeCache.res
            /\ primary' = "cacheHit"
            /\ transformOptions' = EmptyOptions
            /\ pc' = "done"
       ELSE IF PathMissing(key)
       THEN /\ resp' = PathRequiredResponse
            /\ primary' = "noPath"
            /\ transformOptions' = EmptyOptions
            /\ pc' = "done"
       ELSE /\ resp' = NoResp
            /\ primary' = "none"
            /\ transformOptions' = ResolveOptions(options, userAgent)
            /\ pc' = "fetch"

\* lines 557-563: await R2_IMAGES.get(imagePath); the lookup may throw
PrimaryGet(throws) ==
    /\ pc = "fetch"
    /\ UNCHANGED SiteVars
    /\ gets' = Append(gets, req.key)
    /\ bucket' = BucketAfterGet(bucket, req.key)
    /\ UNCHANGED <<side, edgeCache, req, transformOptions, outputOptions,
                   calls, fallback>>
    /\ IF throws
       THEN /\ primary' = "getThrew"
            /\ pc' = "fallback"
            /\ resp' = NoResp
       ELSE IF ObjectMissing(req.key, bucket)
       THEN /\ primary' = "absent"
            /\ pc' = "done"
            /\ resp' = NotFoundResponse
       ELSE /\ primary' = "found"
            /\ pc' = "pipeline"
            /\ resp' = NoResp

\* lines 565-632: the calls on the IMAGES binding. The first failAt - 1
\* calls return and call number failAt throws; with failAt = 0 none throws
\* and the optimized response goes through the cache middleware.
Pipeline(failAt) ==
    LET all == AllCalls(req.key, transformOptions, req.accept)
        out == OutputOptions(transformOptions, req.accept)
        res == OptimizedResponse(req.key, transformOptions, out,
                                 PipelineCalls(req.key, transformOptions))
    IN  /\ pc = "pipeline"
        /\ UNCHANGED SiteVars
        /\ UNCHANGED <<bucket, side, req, transformOptions, gets, fallback>>
        /\ IF failAt = 0
           THEN /\ calls' = all
                /\ outputOptions' = out
                /\ primary' = "ok"
                /\ resp' = AfterNext(res)
                /\ edgeCache' = CachePut(edgeCache, Url(req.options, req.key, req.query), res)
                /\ pc' = "done"
           ELSE /\ calls' = SubSeq(all, 1, failAt)
                /\ outputOptions' = IF all[failAt].op \in {"output", "response"}
                                    THEN out ELSE NoOutput
                /\ primary' = "callThrew"
                /\ resp' = NoResp
                /\ UNCHANGED edgeCache
                /\ pc' = "fallback"

\* the path parameter lost on the way into the catch block
FallbackKey_lost(request) ==
    ""

\* line 640: c.req.param('*') read again inside the catch block
FallbackKey(request) ==
    request.key

\* lines 634-655: the catch block
FallbackGet(throws) ==
    LET imagePath == FallbackKey(req)
        res == FallbackResponse(R2Object(imagePath))
    IN  /\ pc = "fallback"
        /\ UNCHANGED SiteVars
        /\ gets' = Append(gets, imagePath)
        /\ bucket' = BucketAfterGet(bucket, imagePath)
        /\ UNCHANGED <<side, req, transformOptions, outputOptions, calls,
                       primary>>
        /\ pc' = "done"
        /\ IF throws
           THEN /\ fallback' = "threw"
                /\ resp' = FailedResponse("threw")
                /\ UNCHANGED edgeCache
           ELSE IF ObjectMissing(imagePath, bucket)
           THEN /\ fallback' = "absent"
                /\ resp' = FailedResponse("absent")
                /\ UNCHANGED edgeCache
           ELSE /\ fallback' = "found"
                /\ resp' = AfterNext(res)
                /\ edgeCache' = CachePut(edgeCache, Url(req.options, req.key, req.query), res)

\* the edge cache drops its entry
Evict ==
    /\ edgeCache # NoEntry
    /\ UNCHANGED SiteVars
    /\ edgeCache' = NoEntry
    /\ UNCHANGED <<bucket, side, pc, req, transformOptions, outputOptions, calls,
                   gets, primary, fallback, resp>>

\* The response has been delivered: the request's locals go out of scope.
Complete ==
    /\ pc \in {"done", "infoDone"}
    /\ UNCHANGED SiteVars
    /\ pc' = "idle"
    /\ req' = NoRequest
    /\ transformOptions' = EmptyOptions
    /\ outputOptions' = NoOutput
    /\ calls' = <<>>
    /\ gets' = <<>>
    /\ primary' = "none"
    /\ fallback' = "none"
    /\ resp' = NoResp
    /\ UNCHANGED <<bucket, side, edgeCache>>

\* the calls a primary attempt can fail at: none (0) or one of its calls
FailPoints ==
    0..Len(AllCalls(req.key, transformOptions, req.accept))

Next ==
    \/ \E o \in OptionStrings, k \in RequestKeys, a \in Accepts, u \in UserAgents :
          Receive(o, k, a, u, NoQuery)
    \/ \E throws \in BOOLEAN : PrimaryGet(throws)
    \/ \E failAt \in FailPoints : Pipeline(failAt)
    \/ \E throws \in BOOLEAN : FallbackGet(throws)
    \/ Evict
    \/ Complete

Spec ==
    Init /\ [][Next]_vars

TypeOK ==
    /\ bucket \subseteq ObjectKeys
    /\ pc \in {"idle", "fetch", "pipeline", "fallback", "done", "infoFetch",
              "infoDone", "parse", "parsed", "build", "built"}
    /\ Len(gets) <= 2

-----------------------------------------------------------------------------
(* Requests that carry query parameters for directive keys                 *)

Q_300 ==
    <<"3", "0", "0">>

Q_50 ==
    <<"5", "0">>

Queries ==
    {NoQuery,
     [NoQuery EXCEPT !.width = Str(Q_300)],
     [NoQuery EXCEPT !.w = Str(Q_300)],
     [NoQuery EXCEPT !.height = Str(Q_300)],
     [NoQuery EXCEPT !.quality = Str(Q_50), !.format = Str(L_webp)]}

QueryOptionStrings ==
    {O_width_500, O_default, O_png}

NextQuery ==
    \/ \E o \in QueryOptionStrings, k \in RequestKeys,
          a \in {Undef, Str(A_webp)}, q \in Queries :
          Receive(o, k, a, Undef, q)
    \/ \E throws \in BOOLEAN : PrimaryGet(throws)
    \/ \E failAt \in FailPoints : Pipeline(failAt)
    \/ \E throws \in BOOLEAN : FallbackGet(throws)
    \/ Evict
    \/ Complete

SpecQuery ==
    Init /\ [][NextQuery]_vars

-----------------------------------------------------------------------------
(* The info endpoint /info/*, next to the transform route                  *)

S_small ==
    <<"w", "i", "d", "t", "h", "=", "3", "2", "0", ",", "q", "u", "a", "l", "i", "t", "y", "=", "8", "0">>

S_medium ==
    <<"w", "i", "d", "t", "h", "=", "7", "6", "8", ",", "q", "u", "a", "l", "i", "t", "y", "=", "8", "5">>

S_large ==
    <<"w", "i", "d", "t", "h", "=", "1", "2", "0", "0", ",", "q", "u", "a", "l", "i", "t", "y", "=", "8", "5">>

S_webp ==
    <<"f", "o", "r", "m", "a", "t", "=", "w", "e", "b", "p", ",", "q", "u", "a", "l", "i", "t", "y", "=", "8", "5">>

S_avif ==
    <<"f", "o", "r", "m", "a", "t", "=", "a", "v", "i", "f", ",", "q", "u", "a", "l", "i", "t", "y", "=", "8", "0">>

\* c.json(payload, status)
JsonResponse(payload, status) ==
    [status |-> status,
     body |-> [src |-> "json", json |-> payload],
     cacheControl |-> Undef, contentType |-> Undef,
     xImageOptimized |-> Undef, xTransformOptions |-> Undef,
     vary |-> Undef, xFallback |-> Undef]

\* the path /cdn-cgi/image/<options>/<key>
ImagePath(options, key) ==
    [prefix |-> "/cdn-cgi/image/", options |-> options, key |-> key]

\* the avif suggestion left out
InfoMetadata_noAvif(imagePath, object) ==
    [path |-> imagePath,
     size |-> object.size,
     etag |-> object.etag,
     uploaded |-> object.uploaded,
     httpMetadata |-> object.httpMetadata,
     customMetadata |-> object.customMetadata,
     optimizedUrls |->
        [small |-> ImagePath(S_small, imagePath),
         medium |-> ImagePath(S_medium, imagePath),
         large |-> ImagePath(S_large, imagePath),
         webp |-> ImagePath(S_webp, imagePath)]]

\* lines 693-707
InfoMetadata(imagePath, object) ==
    [path |-> imagePath,
     size |-> object.size,
     etag |-> object.etag,
     uploaded |-> object.uploaded,
     httpMetadata |-> object.httpMetadata,
     customMetadata |-> object.customMetadata,
     optimizedUrls |->
        [small |-> ImagePath(S_small, imagePath),
         medium |-> ImagePath(S_medium, imagePath),
         large |-> ImagePath(S_large, imagePath),
         webp |-> ImagePath(S_webp, imagePath),
         avif |-> ImagePath(S_avif, imagePath)]]

\* lines 680-685: a request to /info/<key>, up to the lookup
InfoReceive(key) ==
    /\ pc = "idle"
    /\ UNCHANGED SiteVars
    /\ req' = [NoRequest EXCEPT !.key = key]
    /\ UNCHANGED <<bucket, side, edgeCache, transformOptions, outputOptions, calls,
                   gets, fallback>>
    /\ IF PathMissing(key)
       THEN /\ resp' = JsonResponse([error |-> "Image path required"], 400)
            /\ primary' = "noPath"
            /\ pc' = "infoDone"
       ELSE /\ resp' = NoResp
            /\ primary' = "none"
            /\ pc' = "infoFetch"

\* lines 687-713: await R2_IMAGES.get(imagePath) and the answer
InfoGet(throws) ==
    /\ pc = "infoFetch"
    /\ UNCHANGED SiteVars
    /\ gets' = Append(gets, req.key)
    /\ pc' = "infoDone"
    /\ bucket' = BucketAfterGet(bucket, req.key)
    /\ UNCHANGED <<side, edgeCache, req, transformOptions, outputOptions,
                   calls, fallback>>
    /\ IF throws
       THEN /\ primary' = "getThrew"
            /\ resp' = JsonResponse([error |-> "Failed to get image info"], 500)
       ELSE IF ObjectMissing(req.key, bucket)
       THEN /\ primary' = "absent"
            /\ resp' = JsonResponse([error |-> "Image not found"], 404)
       ELSE /\ primary' = "found"
            /\ resp' = JsonResponse(InfoMetadata(req.key, R2Object(req.key)), 200)

NextInfo ==
    \/ NextQuery
    \/ \E k \in RequestKeys : InfoReceive(k)
    \/ \E throws \in BOOLEAN : InfoGet(throws)

SpecInfo ==
    Init /\ [][NextInfo]_vars

-----------------------------------------------------------------------------
(* The parser on its own: every option string of up to MaxPairs pairs      *)

MaxPairs ==
    2

\* Array.prototype.join
RECURSIVE Join(_, _)
Join(parts, sep) ==
    IF parts = <<>> THEN <<>>
    ELSE IF Len(parts) = 1 THEN parts[1]
    ELSE parts[1] \o sep \o Join(Tail(parts), sep)

Fragments ==
    ValidFragments \cup InvalidFragments

ParseStrings ==
    {Join(fs, <<",">>) : fs \in UNION {[1..n -> Fragments] : n \in 0..MaxPairs}}

InitParse ==
    /\ bucket = {}
    /\ edgeCache = NoEntry
    /\ pc = "parse"
    /\ req \in {[NoRequest EXCEPT !.options = o] : o \in ParseStrings}
    /\ transformOptions = EmptyOptions
    /\ outputOptions = NoOutput
    /\ calls = <<>>
    /\ gets = <<>>
    /\ primary = "none"
    /\ fallback = "none"
    /\ resp = NoResp
    /\ side = NoSide
    /\ SiteIdle

\* lines 547-549: the option string goes through parseTransformOptions
ParseOptions ==
    /\ pc = "parse"
    /\ UNCHANGED SiteVars
    /\ transformOptions' = parseTransformOptions(SearchParams(Str(req.options)))
    /\ pc' = "parsed"
    /\ UNCHANGED <<bucket, side, edgeCache, req, outputOptions, calls, gets,
                   primary, fallback, resp>>

NextParse ==
    ParseOptions

SpecParse ==
    InitParse /\ [][NextParse]_vars

-----------------------------------------------------------------------------
(* A second request in flight: the handlers of /health and /info/* run     *)
(* between the steps of the request above                                  *)

\* the instants new Date() can return
Timestamps ==
    {1, 2}

\* lines 661-674: the payload of /health
HealthResponse(now) ==
    JsonResponse([status |-> "ok",
                  service |-> "jane-perry-image-optimizer",
                  timestamp |-> now,
                  features |-> <<"dynamic-resizing", "format-optimization",
                                 "responsive-images", "aggressive-caching",
                                 "webp-avif-support">>], 200)

MainVars ==
    <<pc, req, transformOptions, outputOptions, calls, gets, primary,
      fallback, resp>>

\* lines 661-674
SideHealth(now) ==
    /\ side.pc = "idle"
    /\ UNCHANGED SiteVars
    /\ side' = [pc |-> "done", key |-> "", resp |-> HealthResponse(now)]
    /\ UNCHANGED <<bucket, edgeCache, MainVars>>

\* lines 679-685
SideInfoReceive(key) ==
    /\ side.pc = "idle"
    /\ UNCHANGED SiteVars
    /\ side' = IF PathMissing(key)
               THEN [pc |-> "done", key |-> key,
                     resp |-> JsonResponse([error |-> "Image path required"], 400)]
               ELSE [pc |-> "infoFetch", key |-> key, resp |-> NoResp]
    /\ UNCHANGED <<bucket, edgeCache, MainVars>>

\* lines 687-713
SideInfoGet(throws) ==
    /\ side.pc = "infoFetch"
    /\ UNCHANGED SiteVars
    /\ bucket' = BucketAfterGet(bucket, side.key)
    /\ side' = [side EXCEPT
          !.pc = "done",
          !.resp = IF throws
                   THEN JsonResponse([error |-> "Failed to get image info"], 500)
                   ELSE IF ObjectMissing(side.key, bucket)
                   THEN JsonResponse([error |-> "Image not found"], 404)
                   ELSE JsonResponse(InfoMetadata(side.key, R2Object(side.key)), 200)]
    /\ UNCHANGED <<edgeCache, MainVars>>

\* the second response has been delivered
SideComplete ==
    /\ side.pc = "done"
    /\ UNCHANGED SiteVars
    /\ side' = NoSide
    /\ UNCHANGED <<bucket, edgeCache, MainVars>>

NextCore ==
    \/ NextInfo
    \/ \E now \in Timestamps : SideHealth(now)
    \/ \E k \in RequestKeys : SideInfoReceive(k)
    \/ \E throws \in BOOLEAN : SideInfoGet(throws)
    \/ SideComplete

SpecCore ==
    Init /\ [][NextCore]_vars

-----------------------------------------------------------------------------
(* Requests whose option strings reach every step of the pipeline          *)

O_all_steps ==
    <<"w", "i", "d", "t", "h", "=", "3", "2", "0", ",", "b", "l", "u", "r", "=", "5", ",", "b", "r", "i", "g", "h", "t", "n", "e", "s", "s", "=", "1", ".", "5", ",", "c", "o", "n", "t", "r", "a", "s", "t", "=", "0", ",", "g", "a", "m", "m", "a", "=", "2", ",", "s", "h", "a", "r", "p", "e", "n", "=", "0", ".", "5">>
O_blur_0 ==
    <<"h", "e", "i", "g", "h", "t", "=", "2", "0", "0", ",", "b", "l", "u", "r", "=", "0">>
O_width_0 ==
    <<"w", "i", "d", "t", "h", "=", "0", ",", "s", "h", "a", "r", "p", "e", "n", "=", "0">>

StepOptionStrings ==
    {O_all_steps, O_blur_0, O_width_0, O_malformed, O_webp_blur, O_default}

NextSteps ==
    \/ \E o \in StepOptionStrings, k \in RequestKeys, a \in {Undef, Str(A_webp)} :
          Receive(o, k, a, Undef, NoQuery)
    \/ \E throws \in BOOLEAN : PrimaryGet(throws)
    \/ \E failAt \in FailPoints : Pipeline(failAt)
    \/ \E throws \in BOOLEAN : FallbackGet(throws)
    \/ Evict
    \/ Complete

SpecSteps ==
    Init /\ [][NextSteps]_vars

-----------------------------------------------------------------------------
(* The URL builders of the site: getImageUrl and getResponsiveImageUrls    *)

L_baseUrl ==
    <<"h", "t", "t", "p", "s", ":", "/", "/", "i", "m", "a", "g", "e", ".", "j", "a", "n", "e", "p", "e", "r", "r", "y", "a", "r", "t", "i", "s", "t", ".", "c", "o", ".", "n", "z">>
L_cdn_cgi_image ==
    <<"/", "c", "d", "n", "-", "c", "g", "i", "/", "i", "m", "a", "g", "e", "/">>
L_default_params ==
    <<"f", "o", "r", "m", "a", "t", "=", "a", "u", "t", "o", ",", "q", "u", "a", "l", "i", "t", "y", "=", "8", "5">>
L_format_auto ==
    <<"f", "o", "r", "m", "a", "t", "=", "a", "u", "t", "o">>
L_onerror_redirect ==
    <<"o", "n", "e", "r", "r", "o", "r", "=", "r", "e", "d", "i", "r", "e", "c", "t">>
L_sizes ==
    <<"(", "m", "a", "x", "-", "w", "i", "d", "t", "h", ":", " ", "6", "4", "0", "p", "x", ")", " ", "1", "0", "0", "v", "w", ",", " ", "(", "m", "a", "x", "-", "w", "i", "d", "t", "h", ":", " ", "1", "2", "8", "0", "p", "x", ")", " ", "5", "0", "v", "w", ",", " ", "3", "3", "v", "w">>
FileName ==
    <<"a", ".", "j", "p", "g">>

\* `key=${value}`
Param(key, value) ==
    key \o <<"=">> \o ValueToString(value)

\* the height pushed under the key of the width
getImageUrl_heightAsWidth(fileName, options) ==
    IF options = Undef
    THEN L_baseUrl \o L_cdn_cgi_image \o L_default_params \o <<"/">> \o fileName
    ELSE LET params ==
                <<L_format_auto, L_onerror_redirect>>
                \o Only(Truthy(options.width), Param(K_width, options.width))
                \o Only(Truthy(options.height), Param(K_width, options.height))
                \o Only(Truthy(options.quality), Param(K_quality, options.quality))
                \o Only(Truthy(options.fit), Param(K_fit, options.fit))
         IN  L_baseUrl \o L_cdn_cgi_image \o Join(params, <<",">>)
             \o <<"/">> \o fileName

\* lines 337-362
getImageUrl(fileName, options) ==
    IF options = Undef
    THEN L_baseUrl \o L_cdn_cgi_image \o L_default_params \o <<"/">> \o fileName
    ELSE LET params ==
                <<L_format_auto, L_onerror_redirect>>
                \o Only(Truthy(options.width), Param(K_width, options.width))
                \o Only(Truthy(options.height), Param(K_height, options.height))
                \o Only(Truthy(options.quality), Param(K_quality, options.quality))
                \o Only(Truthy(options.fit), Param(K_fit, options.fit))
         IN  L_baseUrl \o L_cdn_cgi_image \o Join(params, <<",">>)
             \o <<"/">> \o fileName

\* line 373
Widths ==
    <<320, 640, 960, 1280, 2560>>

\* lines 374-375: options?.quality || 85 and options?.fit || "scale-down"
OrDefault(options, field, default) ==
    IF options # Undef /\ Truthy(options[field]) THEN options[field] ELSE default

\* lines 377-380 and 386: the parameters of one width
ResponsiveParams(options, width) ==
    L_format_auto \o <<",">>
    \o Param(K_quality, OrDefault(options, "quality", Num(85))) \o <<",">>
    \o Param(K_fit, OrDefault(options, "fit", Str(L_scale_down))) \o <<",">>
    \o Param(K_width, Num(width))

\* lines 364-399
getResponsiveImageUrls(fileName, options) ==
    [src |-> L_baseUrl \o L_cdn_cgi_image \o ResponsiveParams(options, 960)
             \o <<"/">> \o fileName,
     srcset |-> Join([i \in 1..Len(Widths) |->
                        L_baseUrl \o L_cdn_cgi_image
                        \o ResponsiveParams(options, Widths[i])
                        \o <<"/">> \o fileName \o <<" ">>
                        \o ValueToString(Num(Widths[i])) \o <<"w">>],
                     <<",", " ">>),
     sizes |-> L_sizes]

\* the pieces of a string between the occurrences of a one-character
\* separator, computed from the positions of the separator
Pieces(s, sep) ==
    LET at == {i \in 1..Len(s) : s[i] = sep}
        At(k) == IF k = 0 THEN 0
                 ELSE IF k > Cardinality(at) THEN Len(s) + 1
                 ELSE CHOOSE i \in at : Cardinality({j \in at : j < i}) = k - 1
    IN  [k \in 1..(Cardinality(at) + 1) |-> SubSeq(s, At(k - 1) + 1, At(k) - 1)]

\* the candidates of a srcset attribute: URL and width descriptor
SrcsetCandidates(srcset) ==
    LET parts == Pieces(srcset, " ")
    IN  [i \in 1..(Len(parts) \div 2) |->
            [url |-> parts[2 * i - 1], w |-> parseInt(parts[2 * i])]]

\* the route /cdn-cgi/image/:options/* applied to a URL: the segment after
\* /cdn-cgi/image/ and the rest of the path
OptionSegment(url) ==
    Pieces(url, "/")[6]

KeySegment(url) ==
    LET parts == Pieces(url, "/")
    IN  Join(SubSeq(parts, 7, Len(parts)), <<"/">>)

\* the options a caller passes: a field the caller leaves out is Undef
GivenWidths ==
    {Undef, Num(0), Num(640), Decimal(3205, 0 - 1)}

GivenHeights ==
    {Undef, Num(0), Num(480)}

GivenQualities ==
    {Undef, Num(0), Num(75), Decimal(825, 0 - 1)}

GivenFits ==
    {Undef, Str(L_cover), Str(L_contain)}

NoImageOptions ==
    [width |-> Undef, height |-> Undef, quality |-> Undef, fit |-> Undef]

ImageUrlArgs ==
    {[fn |-> "getImageUrl", fileName |-> FileName, options |-> o] :
        o \in {Undef} \cup [width : GivenWidths, height : GivenHeights,
                            quality : GivenQualities, fit : GivenFits]}

ResponsiveArgs ==
    {[fn |-> "getResponsiveImageUrls", fileName |-> FileName, options |-> o] :
        o \in {Undef} \cup {[NoImageOptions EXCEPT !.quality = q, !.fit = f] :
                               q \in GivenQualities, f \in GivenFits}}

InitUrl ==
    /\ bucket = {}
    /\ edgeCache = NoEntry
    /\ pc = "build"
    /\ req = NoRequest
    /\ transformOptions = EmptyOptions
    /\ outputOptions = NoOutput
    /\ calls = <<>>
    /\ gets = <<>>
    /\ primary = "none"
    /\ fallback = "none"
    /\ resp = NoResp
    /\ side = NoSide
    /\ args \in ImageUrlArgs \cup ResponsiveArgs
    /\ built = <<>>
    /\ MigratorIdle
    /\ RouterIdle

\* the builder is called; built holds the URLs of its result
BuildUrls ==
    /\ pc = "build"
    /\ pc' = "built"
    /\ built' = IF args.fn = "getImageUrl"
                THEN <<[url |-> getImageUrl(args.fileName, args.options),
                        w |-> Undef]>>
                ELSE LET r == getResponsiveImageUrls(args.fileName, args.options)
                     IN  <<[url |-> r.src, w |-> Undef]>>
                         \o SrcsetCandidates(r.srcset)
    /\ UNCHANGED <<bucket, edgeCache, req, transformOptions, outputOptions,
                   calls, gets, primary, fallback, resp, side, args,
                   MigratorVars, RouterVars>>

\* the browser requests one of the URLs: the route splits its path
RequestBuilt(i) ==
    /\ pc = "built"
    /\ i \in 1..Len(built)
    /\ pc' = "parse"
    /\ built' = <<built[i]>>
    /\ req' = [NoRequest EXCEPT !.options = OptionSegment(built[i].url),
                                !.key = KeySegment(built[i].url)]
    /\ UNCHANGED <<bucket, edgeCache, transformOptions, outputOptions, calls,
                   gets, primary, fallback, resp, side, args,
                   MigratorVars, RouterVars>>

NextUrl ==
    \/ BuildUrls
    \/ \E i \in 1..(Len(Widths) + 1) : RequestBuilt(i)
    \/ ParseOptions

SpecUrl ==
    InitUrl /\ [][NextUrl]_vars

-----------------------------------------------------------------------------
(* scripts/migrate-images.mjs: SimpleImageMigrator                         *)

U_a ==
    <<"h", "t", "t", "p", "s", ":", "/", "/", "s", "3", "/", "p", "/", "a", ".", "j", "p", "g">>
U_b ==
    <<"h", "t", "t", "p", "s", ":", "/", "/", "s", "3", "/", "p", "/", "b", ".", "j", "p", "g">>
U_a2 ==
    <<"h", "t", "t", "p", "s", ":", "/", "/", "s", "3", "/", "q", "/", "a", ".", "j", "p", "g">>
L_optimizedPrefix ==
    <<"h", "t", "t", "p", "s", ":", "/", "/", "i", "m", "a", "g", "e", "s", ".", "j", "a", "n", "e", "-", "p", "e", "r", "r", "y", ".", "c", "o", "m", "/", "c", "d", "n", "-", "c", "g", "i", "/", "i", "m", "a", "g", "e", "/", "f", "o", "r", "m", "a", "t", "=", "a", "u", "t", "o", ",", "q", "u", "a", "l", "i", "t", "y", "=", "8", "5", "/">>

SourceUrls ==
    {U_a, U_b, U_a2}

\* the artworks of the data file, in the order Object.values lists them
ArtworkOrder ==
    <<"1", "2", "3">>

ArtworkIds ==
    {ArtworkOrder[i] : i \in 1..Len(ArtworkOrder)}

\* a file on disk: the document it holds and how it was written
File(data, layout) ==
    [t |-> "file", data |-> data, layout |-> layout]

\* the data files a run can start from: artwork.image?.url of every
\* artwork, Undef when the artwork has none
DataFiles ==
    {File(d, "original") : d \in [ArtworkIds -> {Undef} \cup {Str(u) : u \in SourceUrls}]}

\* lines 53-67: the image URLs of the artworks, duplicates included
getS3Urls(data) ==
    LET with == SelectSeq(ArtworkOrder, LAMBDA a : Truthy(data[a]))
    IN  [i \in 1..Len(with) |-> data[with[i]].s]

\* lines 72-74: url.split('/').pop()
getFilenameFromUrl(url) ==
    LET parts == Pieces(url, "/")
    IN  parts[Len(parts)]

\* lines 112-122: what uploadToR2 returns
UploadResult(filename) ==
    [filename |-> filename,
     r2Url |-> [bucketName |-> "jane-perry-images", key |-> filename],
     optimizedUrl |-> L_optimizedPrefix \o filename,
     etag |-> [of |-> filename, property |-> "etag"]]

\* lines 130-143: processImage up to its first await, the fetch of
\* downloadImage
StartTask(s3Url, processed) ==
    IF s3Url \in DOMAIN processed
    THEN [url |-> s3Url, pc |-> "skipped", result |-> processed[s3Url]]
    ELSE [url |-> s3Url, pc |-> "download", result |-> Undef]

\* Map.prototype.set
MapSet(map, key, value) ==
    [k \in DOMAIN map \cup {key} |-> IF k = key THEN value ELSE map[k]]

\* how many of the calls are at the position, per URL
CountAt(ts, position) ==
    [u \in SourceUrls |->
        Cardinality({i \in 1..Len(ts) : ts[i].url = u /\ ts[i].pc = position})]

Settled(ts) ==
    \A i \in 1..Len(ts) : ts[i].pc \in {"ok", "failed", "skipped"}

\* every URL of the processed map rewritten
UpdatedData_everyUrl(data, processed) ==
    [a \in DOMAIN data |->
        IF Truthy(data[a])
        THEN Str(UploadResult(getFilenameFromUrl(data[a].s)).optimizedUrl)
        ELSE data[a]]

\* lines 173-178: the document after the forEach of updateDataFiles
UpdatedData(data, processed) ==
    [a \in DOMAIN data |->
        IF Truthy(data[a]) /\ data[a].s \in DOMAIN processed
        THEN Str(processed[data[a].s].optimizedUrl)
        ELSE data[a]]

\* lines 170-178: the flag updated
Updated(data, processed) ==
    \E a \in DOMAIN data : Truthy(data[a]) /\ data[a].s \in DOMAIN processed

InitMigrate ==
    /\ bucket = {}
    /\ edgeCache = NoEntry
    /\ pc = "idle"
    /\ req = NoRequest
    /\ transformOptions = EmptyOptions
    /\ outputOptions = NoOutput
    /\ calls = <<>>
    /\ gets = <<>>
    /\ primary = "none"
    /\ fallback = "none"
    /\ resp = NoResp
    /\ side = NoSide
    /\ BuilderIdle
    /\ artworks \in DataFiles
    /\ backup = NoFile
    /\ processedUrls = <<>>
    /\ stats = NewStats
    /\ tasks = <<>>
    /\ downloaded = [u \in SourceUrls |-> 0]
    /\ uploaded = [u \in SourceUrls |-> 0]
    /\ doc = NoFile
    /\ mpc = "start"
    /\ RouterIdle

WorkerVars ==
    <<edgeCache, pc, req, transformOptions, outputOptions, calls, gets,
      primary, fallback, resp, side>>

\* lines 199-225: migrate() reads the URLs and starts processImage for each
\* of them; every call runs up to the fetch before the next one starts
MigrateStart(readFails) ==
    LET s3Urls == getS3Urls(artworks.data)
        started == [i \in 1..Len(s3Urls) |-> StartTask(s3Urls[i], processedUrls)]
    IN  /\ mpc = "start"
        /\ UNCHANGED <<bucket, WorkerVars, BuilderVars, RouterVars, artworks, backup,
                       processedUrls, uploaded, doc>>
        /\ IF readFails
           THEN /\ mpc' = "exited"
                /\ UNCHANGED <<stats, tasks, downloaded>>
           ELSE /\ stats' = [stats EXCEPT !.total = Len(s3Urls)]
                /\ IF Len(s3Urls) = 0
                   THEN /\ mpc' = "done"
                        /\ UNCHANGED <<tasks, downloaded>>
                   ELSE /\ mpc' = "processing"
                        /\ tasks' = started
                        /\ downloaded' = CountAt(started, "download")

\* lines 79-93 and 139-140: the download of one call ends; when it succeeds
\* the call goes on into uploadToR2 and sends the PutObject
DownloadDone(i, ok) ==
    /\ mpc = "processing"
    /\ i \in 1..Len(tasks)
    /\ tasks[i].pc = "download"
    /\ UNCHANGED <<bucket, WorkerVars, BuilderVars, RouterVars, artworks, backup,
                   processedUrls, downloaded, doc, mpc>>
    /\ IF ok
       THEN /\ tasks' = [tasks EXCEPT ![i].pc = "upload"]
            /\ uploaded' = [uploaded EXCEPT ![tasks[i].url] = @ + 1]
            /\ UNCHANGED stats
       ELSE /\ tasks' = [tasks EXCEPT ![i].pc = "failed"]
            /\ stats' = [stats EXCEPT !.errors = @ + 1]
            /\ UNCHANGED uploaded

\* lines 98-127 and 143-157: the PutObject of one call ends
UploadDone(i, ok) ==
    LET filename == getFilenameFromUrl(tasks[i].url)
        uploadResult == UploadResult(filename)
    IN  /\ mpc = "processing"
        /\ i \in 1..Len(tasks)
        /\ tasks[i].pc = "upload"
        /\ UNCHANGED <<WorkerVars, BuilderVars, RouterVars, artworks, backup, downloaded,
                       uploaded, doc, mpc>>
        /\ IF ok
           THEN /\ bucket' = bucket \cup {filename}
                /\ processedUrls' = MapSet(processedUrls, tasks[i].url, uploadResult)
                /\ stats' = [stats EXCEPT !.processed = @ + 1]
                /\ tasks' = [tasks EXCEPT ![i].pc = "ok", ![i].result = uploadResult]
           ELSE /\ stats' = [stats EXCEPT !.errors = @ + 1]
                /\ tasks' = [tasks EXCEPT ![i].pc = "failed"]
                /\ UNCHANGED <<bucket, processedUrls>>

\* lines 222-236 and 163-178: every call has settled; updateDataFiles reads
\* the file and rewrites the URLs in the parsed document
UpdateRead(readFails) ==
    /\ mpc = "processing"
    /\ Settled(tasks)
    /\ UNCHANGED <<bucket, WorkerVars, BuilderVars, RouterVars, artworks, backup,
                   processedUrls, stats, tasks, downloaded, uploaded>>
    /\ IF readFails
       THEN /\ mpc' = "exited"
            /\ UNCHANGED doc
       ELSE /\ doc' = UpdatedData(artworks.data, processedUrls)
            /\ mpc' = IF Updated(artworks.data, processedUrls)
                      THEN "backup" ELSE "done"

\* lines 180-183: fs.copyFile(artworksPath, backupPath)
Backup(fails) ==
    /\ mpc = "backup"
    /\ UNCHANGED <<bucket, WorkerVars, BuilderVars, RouterVars, artworks, processedUrls,
                   stats, tasks, downloaded, uploaded, doc>>
    /\ IF fails
       THEN /\ mpc' = "exited"
            /\ UNCHANGED backup
       ELSE /\ backup' = artworks
            /\ mpc' = "write"

\* lines 185-187: fs.writeFile(artworksPath, JSON.stringify(artworks, null, 2))
Write(fails) ==
    /\ mpc = "write"
    /\ UNCHANGED <<bucket, WorkerVars, BuilderVars, RouterVars, backup, processedUrls,
                   stats, tasks, downloaded, uploaded, doc>>
    /\ IF fails
       THEN /\ mpc' = "exited"
            /\ UNCHANGED artworks
       ELSE /\ artworks' = File(doc, "stringified")
            /\ mpc' = "done"

NextMigrate ==
    \/ \E readFails \in BOOLEAN : MigrateStart(readFails)
    \/ \E i \in 1..Len(ArtworkOrder), ok \in BOOLEAN : DownloadDone(i, ok)
    \/ \E i \in 1..Len(ArtworkOrder), ok \in BOOLEAN : UploadDone(i, ok)
    \/ \E readFails \in BOOLEAN : UpdateRead(readFails)
    \/ \E fails \in BOOLEAN : Backup(fails)
    \/ \E fails \in BOOLEAN : Write(fails)

SpecMigrate ==
    InitMigrate /\ [][NextMigrate]_vars

-----------------------------------------------------------------------------
(* The site's router: the artwork page /:slug/:period/:artworkId           *)

L_paintings ==
    <<"p", "a", "i", "n", "t", "i", "n", "g", "s">>
L_drawings ==
    <<"d", "r", "a", "w", "i", "n", "g", "s">>
L_prints ==
    <<"p", "r", "i", "n", "t", "s">>
L_current ==
    <<"c", "u", "r", "r", "e", "n", "t">>
L_early ==
    <<"e", "a", "r", "l", "y">>

\* lines 296-306
getValidSlugs ==
    <<L_paintings, L_drawings>>

getValidPeriods ==
    <<L_current, L_early>>

isValidSlugPeriod(slug, period) ==
    InSeq(slug, getValidSlugs) /\ InSeq(period, getValidPeriods)

\* the key `${slug}-${period}` of pageDataMap
PageKey(slug, period) ==
    slug \o <<"-">> \o period

PageKeys ==
    {PageKey(s, p) : s \in {L_paintings, L_drawings}, p \in {L_current, L_early}}

\* an entry of artworks.json
ArtworkEntry(n) ==
    [id |-> n, title |-> [of |-> n, property |-> "title"]]

\* the artwork ids a page file can list: an id twice, an id that
\* artworks.json lacks
PageLists ==
    {<<>>, <<1>>, <<2, 1>>, <<1, 3, 2>>, <<1, 1, 2>>, <<3, 4>>}

\* the page files the site can be built with
PageFile(slug, period, ids) ==
    [slug |-> slug, period |-> period,
     title |-> [of |-> PageKey(slug, period), property |-> "title"],
     artworks |-> ids]

\* lines 258-278
loadPageData(slug, period) ==
    LET key == PageKey(slug, period)
    IN  IF key \notin DOMAIN pageDataMap THEN Undef
        ELSE LET data == pageDataMap[key]
                 found == SelectSeq(data.artworks,
                             LAMBDA artworkId :
                                ValueToString(Num(artworkId)) \in DOMAIN artworksData)
             IN  [slug |-> data.slug, period |-> data.period,
                  title |-> data.title,
                  artworks |-> [i \in 1..Len(found) |->
                                  artworksData[ValueToString(Num(found[i]))]]]

\* lines 280-283
loadArtwork(id) ==
    IF id \in DOMAIN artworksData THEN artworksData[id] ELSE Undef

\* the route patterns (drawings|paintings), (current|early) and [0-9]+
RouteMatches(slug, period, artworkId) ==
    /\ slug \in {L_drawings, L_paintings}
    /\ period \in {L_current, L_early}
    /\ artworkId # <<>>
    /\ \A i \in 1..Len(artworkId) : InSeq(artworkId[i], DecimalDigits)

\* c.notFound(), and the answer to a path no route matches
NotFoundPage ==
    [status |-> 404, view |-> "notFound"]

\* the requested artwork kept in the list
allOtherArtworks_unfiltered(page, artwork) ==
    page.artworks

\* line 372: page.artworks.filter(a => a.id !== artwork.id)
allOtherArtworks(page, artwork) ==
    SelectSeq(page.artworks, LAMBDA a : a.id # artwork.id)

\* lines 347-381
ArtworkPage(slug, period, artworkId) ==
    IF ~RouteMatches(slug, period, artworkId) THEN NotFoundPage
    ELSE IF ~isValidSlugPeriod(slug, period) THEN NotFoundPage
    ELSE LET page == loadPageData(slug, period)
             artwork == loadArtwork(artworkId)
         IN  IF page = Undef THEN NotFoundPage
             ELSE IF artwork = Undef THEN NotFoundPage
             ELSE IF ~\E i \in 1..Len(page.artworks) :
                        page.artworks[i].id = artwork.id
             THEN NotFoundPage
             ELSE [status |-> 200, view |-> "ArtworkDetail",
                   artwork |-> artwork, page |-> page,
                   allOtherArtworks |-> allOtherArtworks(page, artwork)]

VisitSlugs ==
    {L_paintings, L_drawings, L_prints}

VisitPeriods ==
    {L_current, L_early}

VisitIds ==
    {<<"1">>, <<"2">>, <<"3">>, <<"4">>, <<"0", "1">>, <<"x">>}

InitRouter ==
    /\ bucket = {}
    /\ edgeCache = NoEntry
    /\ pc = "idle"
    /\ req = NoRequest
    /\ transformOptions = EmptyOptions
    /\ outputOptions = NoOutput
    /\ calls = <<>>
    /\ gets = <<>>
    /\ primary = "none"
    /\ fallback = "none"
    /\ resp = NoResp
    /\ side = NoSide
    /\ BuilderIdle
    /\ MigratorIdle
    /\ \E present \in SUBSET {1, 2, 3} :
          artworksData = [k \in {ValueToString(Num(n)) : n \in present} |->
                            ArtworkEntry(CHOOSE n \in present :
                                            ValueToString(Num(n)) = k)]
    /\ \E pc1 \in PageLists, de \in PageLists :
          pageDataMap = [k \in PageKeys |->
              IF k = PageKey(L_paintings, L_current)
              THEN PageFile(L_paintings, L_current, pc1)
              ELSE IF k = PageKey(L_drawings, L_early)
              THEN PageFile(L_drawings, L_early, de)
              ELSE IF k = PageKey(L_paintings, L_early)
              THEN PageFile(L_paintings, L_early, <<2>>)
              ELSE PageFile(L_drawings, L_current, <<>>)]
    /\ visit = NoVisit
    /\ rendered = NoResp

\* a request to /<slug>/<period>/<artworkId> is answered
Visit(slug, period, artworkId) ==
    /\ visit' = [slug |-> slug, period |-> period, artworkId |-> artworkId]
    /\ rendered' = ArtworkPage(slug, period, artworkId)
    /\ UNCHANGED <<bucket, WorkerVars, BuilderVars, MigratorVars,
                   artworksData, pageDataMap>>

NextRouter ==
    \E s \in VisitSlugs, p \in VisitPeriods, a \in VisitIds : Visit(s, p, a)

SpecRouter ==
    InitRouter /\ [][NextRouter]_vars

-----------------------------------------------------------------------------
(* Properties *)

\* the handler body has run for the request in the state (no cache hit, no
\* empty path)
HandlerRan ==
    \/ pc \in {"fetch", "pipeline", "fallback"}
    \/ pc = "done" /\ primary \notin {"cacheHit", "noPath"}

PrimaryFailed ==
    primary \in {"getThrew", "callThrew"}

IsBadRequest(r) ==
    r.status = 400 /\ r.body.src = "text"

IsNotFound(r) ==
    r.status = 404 /\ r.body.src = "text"

IsOptimized(r) ==
    r.status = 200 /\ r.body.src = "encoded" /\ r.xImageOptimized = Str(L_true)

IsFallback(r) ==
    r.status = 200 /\ r.body.src = "r2" /\ r.xFallback = Str(L_original_r2)

IsFailed(r) ==
    r.status = 500 /\ r.body.src = "text"

\* C1: a request whose key is absent from the bucket at the primary fetch is
\* answered 404, with no call on the IMAGES binding and no second lookup.
C1_AbsentKeyIs404 ==
    (pc = "done" /\ HandlerRan /\ primary # "getThrew" /\ req.key \notin bucket) =>
        /\ resp.status = 404
        /\ calls = <<>>
        /\ gets = <<req.key>>
        /\ fallback = "none"

C1_Witness ==
    /\ pc = "done"
    /\ primary = "absent"
    /\ req.key = "missing.png"
    /\ resp.status = 404

\* C2: when a call of the primary attempt throws on an object that exists
\* and the re-fetch returns the object, the response is 200 with the
\* original bytes of that key and X-Fallback: original-r2.
C2_FallbackServesOriginal ==
    (pc = "done" /\ primary = "callThrew" /\ fallback = "found") =>
        /\ resp.status = 200
        /\ resp.body = [src |-> "r2", key |-> req.key]
        /\ resp.xFallback = Str(L_original_r2)

C2_Witness ==
    /\ pc = "done"
    /\ primary = "callThrew"
    /\ fallback = "found"
    /\ calls # <<>>
    /\ calls[Len(calls)].op = "transform"
    /\ resp.status = 200

\* C3: when the primary attempt fails and the re-fetch returns nothing or
\* throws, the response is 500 with one fixed body, whatever failed.
C3_BothFailedIs500 ==
    (pc = "done" /\ PrimaryFailed /\ fallback \in {"absent", "threw"}) =>
        resp = TextResponse("Image processing failed", 500)

C3_Witness ==
    /\ pc = "done"
    /\ primary = "callThrew"
    /\ fallback = "threw"
    /\ resp.status = 500

\* C4 as stated: every response is 404, 200 optimized, 200 fallback or 500.
C4_FourOutcomes ==
    resp # NoResp =>
        IsNotFound(resp) \/ IsOptimized(resp) \/ IsFallback(resp) \/ IsFailed(resp)

\* C4 amended: every response is exactly one of 400, 404, 200 optimized,
\* 200 fallback and 500, and it is 400 exactly when the object key is empty.
C4_FiveOutcomes ==
    resp # NoResp =>
        /\ Cardinality({k \in {"400", "404", "optimized", "fallback", "500"} :
              \/ k = "400" /\ IsBadRequest(resp)
              \/ k = "404" /\ IsNotFound(resp)
              \/ k = "optimized" /\ IsOptimized(resp)
              \/ k = "fallback" /\ IsFallback(resp)
              \/ k = "500" /\ IsFailed(resp)}) = 1
        /\ resp.status \in {200, 400, 404, 500}
        /\ (resp.status = 400 <=> req.key = "")

C4_Witness ==
    /\ pc = "done"
    /\ req.key = ""
    /\ resp.status = 400

\* C5: every response with a transformed body carries the four headers of
\* a successful transformation.
C5_OptimizedHeaders ==
    (resp # NoResp /\ resp.body.src = "encoded") =>
        /\ resp.cacheControl = Str(CC_optimized)
        /\ resp.xImageOptimized = Str(L_true)
        /\ resp.xTransformOptions # Undef
        /\ resp.vary = Str(L_Accept_UserAgent)

C5_Witness ==
    /\ pc = "done"
    /\ primary = "ok"
    /\ resp.status = 200
    /\ resp.body.src = "encoded"

\* C6: every response of the degraded path reaches the client with
\* Cache-Control exactly 'public, max-age=3600' and X-Fallback: original-r2.
C6_FallbackCacheControl ==
    (resp # NoResp /\ resp.body.src = "r2") =>
        /\ resp.cacheControl = Str(CC_fallback)
        /\ resp.xFallback = Str(L_original_r2)

\* C7: with format auto in the directive, output() is given avif when the
\* Accept header contains image/avif, else webp when it contains
\* image/webp, else jpeg; an absent header counts as empty.
C7_AutoFormat ==
    (outputOptions # NoOutput /\ transformOptions.format = Str(L_auto)) =>
        LET acceptValue == IF req.accept = Undef THEN <<>> ELSE req.accept.s
        IN  outputOptions.format =
                IF Includes(acceptValue, L_image_avif) THEN Str(L_image_avif)
                ELSE IF Includes(acceptValue, L_image_webp) THEN Str(L_image_webp)
                ELSE Str(L_image_jpeg)

C7_Witness ==
    /\ pc = "done"
    /\ primary = "ok"
    /\ transformOptions.format = Str(L_auto)
    /\ req.accept = Str(A_webp)
    /\ outputOptions.format = Str(L_image_webp)

ExplicitFormats ==
    {L_webp, L_avif, L_jpeg, L_png}

\* C8: with an explicit format in the directive, output() is given that
\* format, and the same request with any other Accept header would be
\* given the same format.
C8_ExplicitFormat ==
    (outputOptions # NoOutput /\ transformOptions.format.s \in ExplicitFormats) =>
        /\ outputOptions.format = Str(L_image_ \o transformOptions.format.s)
        /\ \A other \in Accepts :
              OutputOptions(transformOptions, other).format = outputOptions.format

C8_Witness ==
    /\ pc = "done"
    /\ primary = "ok"
    /\ transformOptions.format = Str(L_png)
    /\ req.accept = Str(A_avif_webp)
    /\ outputOptions.format = Str(L_image_ \o L_png)

\* C9: with width=auto in the option string the directive's width is 320
\* for a mobile and not tablet user-agent, 768 for a tablet one, 1200
\* for any other, an absent one included.
C9_ResponsiveWidth ==
    (HandlerRan /\ Includes(req.options, L_width_auto)) =>
        LET ua == IF req.userAgent = Undef THEN <<>> ELSE req.userAgent.s
            mobile == TestAnyOfIgnoreCase(MobilePattern, ua)
            tablet == TestAnyOfIgnoreCase(TabletPattern, ua)
        IN  /\ transformOptions.width \in {Num(320), Num(768), Num(1200)}
            /\ (mobile /\ ~tablet) => transformOptions.width = Num(320)
            /\ tablet => transformOptions.width = Num(768)
            /\ (~mobile /\ ~tablet) => transformOptions.width = Num(1200)

C9_Witness ==
    /\ HandlerRan
    /\ req.options = O_width_auto
    /\ req.userAgent = Str(UA_AndroidTablet)
    /\ transformOptions.width = Num(768)

\* the width the parser reads from the option string
ParsedWidth ==
    parseTransformOptions(SearchParams(Str(req.options))).width

\* C10: when the option string supplies a numeric width, the directive's
\* width is that width, also when the string contains width=auto.
C10_ExplicitWidthWins ==
    (HandlerRan /\ ParsedWidth.t = "number") =>
        transformOptions.width = ParsedWidth

\* the pairs of the option string in the state, as the parser splits them
PairsOf(options) ==
    FilterBoolean(Split(options, ","))

\* the option string carries a pair with one of the keys and a value
Supplied(options, keys) ==
    \E i \in 1..Len(PairsOf(options)) :
        LET kv == Split(PairsOf(options)[i], "=")
        IN  kv[1] \in keys /\ Len(kv) >= 2 /\ kv[2] # <<>>

\* C11: the parser returns a directive for every option string, and in it
\* quality is 85, format is auto and fit is scale-down whenever the string
\* did not supply that field.
C11_DefaultsApplied ==
    pc = "parsed" =>
        /\ DOMAIN transformOptions = DOMAIN EmptyOptions
        /\ ~Supplied(req.options, {K_quality, K_q}) =>
              transformOptions.quality = Num(85)
        /\ ~Supplied(req.options, {K_format, K_f}) =>
              transformOptions.format = Str(L_auto)
        /\ ~Supplied(req.options, {K_fit}) =>
              transformOptions.fit = Str(L_scale_down)

C11_Witness ==
    /\ pc = "parsed"
    /\ req.options = Join(<<F_junk, F_width_novalue>>, <<",">>)
    /\ transformOptions.quality = Num(85)
    /\ transformOptions.format = Str(L_auto)
    /\ transformOptions.fit = Str(L_scale_down)

NumericFields ==
    {"width", "height", "quality", "blur", "brightness", "contrast", "gamma",
     "sharpen"}

\* the directive with every NaN field unset
UnsetNaN(t) ==
    [f \in DOMAIN t |-> IF t[f] = NaN THEN Undef ELSE t[f]]

\* C12: a malformed numeric value leaves its field unset in the directive,
\* and the calls of the pipeline are those of the directive without it.
C12_MalformedSkipsStep ==
    (pc = "done" /\ primary = "ok") =>
        /\ \A f \in NumericFields : transformOptions[f] # NaN
        /\ calls = AllCalls(req.key, UnsetNaN(transformOptions), req.accept)

RecognizedKeys ==
    {K_width, K_w, K_height, K_h, K_quality, K_q, K_format, K_f, K_fit,
     K_gravity, K_g, K_background, K_bg, K_blur, K_brightness, K_contrast,
     K_gamma, K_sharpen}

\* a pair with a recognized key and a value
KeepPair(pair) ==
    LET kv == Split(pair, "=")
    IN  kv[1] \in RecognizedKeys /\ Len(kv) >= 2 /\ kv[2] # <<>>

\* the option string without its pairs that have no value or an
\* unrecognized key
Cleaned(options) ==
    Join(SelectSeq(Split(options, ","), KeepPair), <<",">>)

\* C13: the directive parsed from an option string is the directive parsed
\* from the string without its valueless and unrecognized pairs.
C13_DroppedPairs ==
    pc = "parsed" =>
        transformOptions =
            parseTransformOptions(SearchParams(Str(Cleaned(req.options))))

C13_Witness ==
    /\ pc = "parsed"
    /\ req.options = Join(<<F_onerror, F_width_320>>, <<",">>)
    /\ Cleaned(req.options) = F_width_320
    /\ transformOptions.width = Num(320)

\* C14: a query parameter of the request for a directive key (long name or
\* short alias) gives the directive's value for that key, over the value of
\* the path option string.
C14_QueryOverrides ==
    HandlerRan =>
        /\ req.query.width # Undef =>
              transformOptions.width = parseInt(req.query.width.s)
        /\ req.query.w # Undef =>
              transformOptions.width = parseInt(req.query.w.s)
        /\ req.query.height # Undef =>
              transformOptions.height = parseInt(req.query.height.s)
        /\ req.query.quality # Undef =>
              transformOptions.quality = parseInt(req.query.quality.s)
        /\ req.query.format # Undef =>
              transformOptions.format = req.query.format

\* C15: the X-Transform-Options header of a transformed response carries,
\* for a directive with format auto, the format that was negotiated, and
\* for an option string with width=auto, the width that was resolved.
C15_EchoesNegotiated ==
    (pc = "done" /\ primary = "ok") =>
        /\ transformOptions.format = Str(L_auto) =>
              /\ resp.xTransformOptions.format.t = "string"
              /\ L_image_ \o resp.xTransformOptions.format.s = outputOptions.format.s
        /\ Includes(req.options, L_width_auto) =>
              /\ resp.xTransformOptions.width = transformOptions.width
              /\ resp.xTransformOptions.width \in {Num(320), Num(768), Num(1200)}

\* C16: a transformed response that reaches a client, from the handler or
\* from the cache, has the output format negotiated for that client's own
\* Accept header.
C16_NoConflation ==
    (pc = "done" /\ resp # NoResp /\ resp.body.src = "encoded") =>
        resp.contentType =
            OutputOptions(ResolveOptions(req.options, req.userAgent),
                          req.accept).format

\* a number that is an integer of the range lo..hi
IntegerIn(v, lo, hi) ==
    v.t = "number" /\ v.e = 0 /\ v.m >= lo /\ v.m <= hi

\* C17: in every directive the parser returns, quality is an integer of
\* 1..100.
C17_QualityInRange ==
    pc = "parsed" => IntegerIn(transformOptions.quality, 1, 100)

FormatDomain ==
    {Str(L_auto), Str(L_webp), Str(L_avif), Str(L_jpeg), Str(L_png)}

FitDomain ==
    {Str(L_scale_down), Str(L_contain), Str(L_cover), Str(L_crop), Str(L_pad)}

\* C18: in every directive the parser returns, format and fit are of their
\* declared domains and width and height, when set, are positive integers.
C18_FieldDomains ==
    pc = "parsed" =>
        /\ transformOptions.format \in FormatDomain
        /\ transformOptions.fit \in FitDomain
        /\ transformOptions.width # Undef =>
              transformOptions.width.t = "number"
              /\ transformOptions.width.e = 0 /\ transformOptions.width.m > 0
        /\ transformOptions.height # Undef =>
              transformOptions.height.t = "number"
              /\ transformOptions.height.e = 0 /\ transformOptions.height.m > 0

\* the decimal digits of a natural number
FieldOrder ==
    <<"width", "height", "quality", "format", "fit", "gravity", "background",
      "blur", "brightness", "contrast", "gamma", "sharpen">>

\* the long key of a field of the directive
KeyOfField ==
    [width |-> K_width, height |-> K_height, quality |-> K_quality,
     format |-> K_format, fit |-> K_fit, gravity |-> K_gravity,
     background |-> K_background, blur |-> K_blur,
     brightness |-> K_brightness, contrast |-> K_contrast,
     gamma |-> K_gamma, sharpen |-> K_sharpen]

\* the directive written back as an option string: one key=value pair for
\* every field that is set
Serialize(t) ==
    LET set == SelectSeq(FieldOrder, LAMBDA f : t[f] # Undef)
    IN  Join([i \in 1..Len(set) |->
                KeyOfField[set[i]] \o <<"=">> \o ValueToString(t[set[i]])],
             <<",">>)

\* every pair of the option string has a recognized key and a valid value
AllValid(options) ==
    \/ options = <<>>
    \/ \A i \in 1..Len(Split(options, ",")) :
          Split(options, ",")[i] \in ValidFragments

\* C19: for an option string of recognized keys with valid values, parsing
\* the serialized directive gives the directive again.
C19_RoundTrip ==
    (pc = "parsed" /\ AllValid(req.options)) =>
        parseTransformOptions(SearchParams(Str(Serialize(transformOptions))))
            = transformOptions

C19_Witness ==
    /\ pc = "parsed"
    /\ req.options = Join(<<F_q_100, F_brightness_1_5>>, <<",">>)
    /\ transformOptions.quality = Num(100)
    /\ transformOptions.brightness = Decimal(15, 0 - 1)
    /\ Includes(Serialize(transformOptions), F_brightness_1_5)
    /\ Serialize(transformOptions) # req.options

SuggestionNames ==
    {"small", "medium", "large", "webp", "avif"}

\* the answer of the info endpoint is the metadata of the requested key
\* with the five suggestions, each a transform path for that key
IsInfoPayload(r, key) ==
    /\ r.status = 200
    /\ r.body.src = "json"
    /\ r.body.json.path = key
    /\ r.body.json.size = R2Object(key).size
    /\ r.body.json.etag = R2Object(key).etag
    /\ r.body.json.uploaded = R2Object(key).uploaded
    /\ r.body.json.httpMetadata = R2Object(key).httpMetadata
    /\ r.body.json.customMetadata = R2Object(key).customMetadata
    /\ DOMAIN r.body.json.optimizedUrls = SuggestionNames
    /\ \A n \in SuggestionNames :
          /\ r.body.json.optimizedUrls[n].prefix = "/cdn-cgi/image/"
          /\ r.body.json.optimizedUrls[n].key = key
          /\ r.body.json.optimizedUrls[n].options # <<>>

\* C20 as stated: the info endpoint answers 404 when the key is absent
\* from the bucket, 500 when the lookup throws, otherwise the payload, and
\* calls nothing on the IMAGES binding.
C20_InfoThreeOutcomes ==
    pc = "infoDone" =>
        /\ calls = <<>>
        /\ IF primary = "getThrew" THEN resp.status = 500
           ELSE IF req.key \notin bucket THEN resp.status = 404
           ELSE IsInfoPayload(resp, req.key)

\* C20 amended: an empty key is answered 400 without a lookup; for any
\* other key the endpoint answers 500 when the lookup throws, 404 when the
\* key is absent, otherwise the payload; it calls nothing on IMAGES.
C20_InfoFourOutcomes ==
    pc = "infoDone" =>
        /\ calls = <<>>
        /\ IF req.key = "" THEN resp.status = 400 /\ gets = <<>>
           ELSE /\ gets = <<req.key>>
                /\ IF primary = "getThrew" THEN resp.status = 500
                   ELSE IF req.key \notin bucket THEN resp.status = 404
                   ELSE IsInfoPayload(resp, req.key)

C20_Witness ==
    /\ pc = "infoDone"
    /\ req.key = "a.jpg"
    /\ primary = "found"
    /\ IsInfoPayload(resp, "a.jpg")
    /\ resp.body.json.optimizedUrls.small = ImagePath(S_small, "a.jpg")

\* the position of an operation in the order the handler applies them
StepRank ==
    [input |-> 0, transform |-> 1, blur |-> 2, brightness |-> 3,
     contrast |-> 4, gamma |-> 5, sharpen |-> 6, output |-> 7, response |-> 8]

Filters ==
    {"blur", "brightness", "contrast", "gamma", "sharpen"}

CalledOps ==
    {calls[i].op : i \in 1..Len(calls)}

\* C21: the operations invoked on the image binding occur in the order
\* resize, blur, brightness, contrast, gamma, sharpen, then the one encode
\* call: no filter comes before the resize and the encode comes before no
\* filter, also when a call throws part way.
C21_FixedOrder ==
    /\ \A i, j \in 1..Len(calls) :
          i < j => StepRank[calls[i].op] < StepRank[calls[j].op]
    /\ Cardinality({i \in 1..Len(calls) : calls[i].op = "output"}) <= 1

C21_Witness ==
    /\ pc = "done"
    /\ primary = "ok"
    /\ req.options = O_all_steps
    /\ {"transform", "output"} \cup Filters \subseteq CalledOps

\* the key under which the option string names a filter
FilterKey ==
    [blur |-> K_blur, brightness |-> K_brightness, contrast |-> K_contrast,
     gamma |-> K_gamma, sharpen |-> K_sharpen]

\* C22: a step runs if and only if its field is set: the resize exactly
\* when width or height is set, each filter exactly when the option string
\* supplied a value for it, the value 0 included.
C22_StepIffSet ==
    (pc = "done" /\ primary = "ok") =>
        /\ "transform" \in CalledOps <=>
              (transformOptions.width # Undef \/ transformOptions.height # Undef)
        /\ \A f \in Filters :
              f \in CalledOps <=> Supplied(req.options, {FilterKey[f]})

C24_BucketReadOnly ==
    /\ [][bucket' = bucket]_vars
    /\ [][side' # side => UNCHANGED MainVars]_vars
    /\ [](HandlerRan =>
            transformOptions = ResolveOptions(req.options, req.userAgent))

C24_Witness ==
    /\ pc = "pipeline"
    /\ gets = <<"a.jpg">>
    /\ side.pc = "done"
    /\ side.key = "a.jpg"
    /\ side.resp.status = 200
    /\ bucket = {"a.jpg"}

\* C25: a request to the transform route with an empty object key is
\* answered 400 before any bucket lookup or image operation, and the
\* fallback path is not entered.
C25_EmptyKeyIs400 ==
    (req.key = "" /\ req.options # <<>> /\ pc \notin {"idle", "infoFetch", "infoDone"}) =>
        /\ pc = "done"
        /\ resp = TextResponse("Image path required", 400)
        /\ gets = <<>>
        /\ calls = <<>>
        /\ outputOptions = NoOutput
        /\ fallback = "none"
        /\ primary = "noPath"

C25_Witness ==
    /\ pc = "done"
    /\ req.key = ""
    /\ req.options = O_all_steps
    /\ edgeCache # NoEntry
    /\ resp.status = 400

GivenFields ==
    {"width", "height", "quality", "fit"}

\* the value the caller gave for a field of the directive; the width of a
\* srcset candidate is the one its descriptor declares
Given(field) ==
    IF args.fn = "getResponsiveImageUrls" /\ field = "width"
    THEN IF built[1].w = Undef THEN Num(960) ELSE built[1].w
    ELSE IF args.options = Undef THEN Undef ELSE args.options[field]

PositiveInteger(v) ==
    v.t = "number" /\ v.e = 0 /\ v.m > 0

\* C26 as stated: the directive parsed from the option segment of a built
\* URL has exactly the width, height, quality and fit given to the builder,
\* and format auto.
C26_BuildersAgree ==
    pc = "parsed" =>
        /\ transformOptions.format = Str(L_auto)
        /\ \A f \in GivenFields :
              Given(f) # Undef => transformOptions[f] = Given(f)

\* what parsing an option string without the field leaves in the directive
Unsupplied ==
    [width |-> Undef, height |-> Undef, quality |-> Num(85),
     fit |-> Str(L_scale_down)]

\* C26 amended: the directive has format auto, every width, height and
\* quality given as a positive integer and every fit given; a field that is
\* not given, or given as 0, is as if the option string did not name it; the
\* pair onerror=redirect changes nothing; the object key is the file name.
C26_BuildersAgreeOnPositive ==
    pc = "parsed" =>
        /\ transformOptions.format = Str(L_auto)
        /\ \A f \in GivenFields :
              /\ (PositiveInteger(Given(f)) \/ Given(f).t = "string") =>
                    transformOptions[f] = Given(f)
              /\ ~Truthy(Given(f)) => transformOptions[f] = Unsupplied[f]
        /\ \A f \in DOMAIN transformOptions \ (GivenFields \cup {"format"}) :
              transformOptions[f] = Undef
        /\ req.key = args.fileName

C26_Witness ==
    /\ pc = "parsed"
    /\ args.fn = "getImageUrl"
    /\ args.options # Undef
    /\ args.options.width = Num(640)
    /\ args.options.quality = Num(75)
    /\ args.options.fit = Str(L_cover)
    /\ Includes(req.options, L_onerror_redirect)
    /\ transformOptions.width = Num(640)
    /\ transformOptions.quality = Num(75)
    /\ transformOptions.fit = Str(L_cover)

\* C27: during one run of migrate() every distinct source URL is downloaded
\* and uploaded at most once, also when the list of URLs holds duplicates.
C27_AtMostOnce ==
    mpc # "idle" =>
        \A u \in SourceUrls : downloaded[u] <= 1 /\ uploaded[u] <= 1

\* a call of processImage for the URL downloaded and uploaded it
Succeeded(u) ==
    \E i \in 1..Len(tasks) : tasks[i].url = u /\ tasks[i].pc = "ok"

Written ==
    artworks.layout = "stringified"

\* C28: updateDataFiles rewrites an artwork's image.url if and only if the
\* URL was downloaded and uploaded in this run, and leaves the URLs whose
\* processing failed as they were; when no URL was processed the file is
\* neither backed up nor written; when the file is written, the backup
\* holds the content the file had before.
C28_UpdateDataFiles ==
    /\ [][artworks' # artworks =>
            /\ backup = artworks
            /\ backup' = backup
            /\ Written'
            /\ \A a \in ArtworkIds :
                  LET before == artworks.data[a]
                      after == artworks'.data[a]
                  IN  IF Truthy(before) /\ Succeeded(before.s)
                      THEN after = Str(L_optimizedPrefix
                                       \o getFilenameFromUrl(before.s))
                      ELSE after = before]_vars
    /\ [][backup' # backup => backup' = artworks /\ artworks' = artworks]_vars
    /\ []((\A u \in SourceUrls : ~Succeeded(u)) => (backup = NoFile /\ ~Written))
    /\ [](mpc = "done" /\ (\E a \in ArtworkIds :
                              Truthy(artworks.data[a]) /\ Succeeded(artworks.data[a].s))
            => Written)

C28_Witness ==
    /\ mpc = "done"
    /\ Written
    /\ backup # NoFile
    /\ backup.layout = "original"
    /\ backup.data["1"] = Str(U_a) /\ backup.data["2"] = Str(U_b)
    /\ Succeeded(U_a) /\ ~Succeeded(U_b)
    /\ artworks.data["1"] # Str(U_a)
    /\ artworks.data["2"] = Str(U_b)

\* the ids the page file of the visited slug and period lists
ListedIds ==
    LET key == PageKey(visit.slug, visit.period)
    IN  IF key \in DOMAIN pageDataMap
        THEN {pageDataMap[key].artworks[i] :
                 i \in 1..Len(pageDataMap[key].artworks)}
        ELSE {}

\* the artworks of artworks.json the page lists
PageArtworks ==
    {artworksData[k] : k \in {k \in DOMAIN artworksData :
                                 artworksData[k].id \in ListedIds}}

\* C29: the artwork page renders the artwork only when the artwork id
\* exists and is a member of the collection of the slug-period page, and
\* answers not-found otherwise; the other artworks it renders are every
\* artwork of the page except the requested one, and never the requested
\* one.
C29_ArtworkPage ==
    visit # NoVisit =>
        LET exists == visit.artworkId \in DOMAIN artworksData
            member == exists /\ artworksData[visit.artworkId].id \in ListedIds
            others == {rendered.allOtherArtworks[i] :
                          i \in 1..Len(rendered.allOtherArtworks)}
        IN  IF member
            THEN /\ rendered.status = 200
                 /\ rendered.artwork = artworksData[visit.artworkId]
                 /\ others = PageArtworks \ {rendered.artwork}
            ELSE rendered = NotFoundPage

C29_Witness ==
    /\ visit.slug = L_paintings
    /\ visit.period = L_current
    /\ visit.artworkId = <<"1">>
    /\ rendered.status = 200
    /\ Len(rendered.page.artworks) = 3
    /\ Len(rendered.allOtherArtworks) = 1
    /\ rendered.allOtherArtworks[1].id = 2
=============================================================================
